---- MODULE Spec2Model ----
(***************************************************************************)
(* Trade lifecycle of the trading-journal backend: the two P/L            *)
(* computations (route helper calculateProfitLoss, Mongoose pre-save      *)
(* hooks of Trade and OptionTrade), the day-trade validation hook and the *)
(* create / update / import / delete handlers of the trade routes.        *)
(*                                                                         *)
(* Numbers are exact: prices, quantities and money are integers,          *)
(* percentages are reduced fractions [n, d] (d = 0 is +/-Infinity or NaN).*)
(* Dates are seconds.  An optional JS value is <<>> (null / undefined) or *)
(* <<v>>.                                                                  *)
(***************************************************************************)
EXTENDS Integers, Sequences, FiniteSets, TLC

VARIABLES trades, optionTrades, last, probe, users, inflight, settings

vars == <<trades, optionTrades, last, probe, users, inflight, settings>>

----------------------------------------------------------------------------
(* JS values *)

None == <<>>

Some(v) == <<v>>

\* JS truthiness of an optional number: null, undefined and 0 are falsy
Truthy(o) == o # None /\ o[1] # 0

\* a Date object (or a non-empty date string) is truthy whenever present
Present(o) == o # None

Abs(x) == IF x < 0 THEN -x ELSE x

Sign(x) == IF x < 0 THEN -1 ELSE IF x > 0 THEN 1 ELSE 0

RECURSIVE GCD(_, _)
GCD(a, b) == IF b = 0 THEN a ELSE GCD(b, a % b)

\* the JS number n / d: a reduced fraction, +/-Infinity (d = 0, n = +/-1)
\* or NaN (n = 0, d = 0)
Ratio(n, d) ==
  IF d = 0 THEN [n |-> Sign(n), d |-> 0]
  ELSE LET g == GCD(Abs(n), Abs(d))
           s == Sign(d)
       IN  [n |-> (s * n) \div g, d |-> (s * d) \div g]

Finite(r) == r.d # 0

Zero == Ratio(0, 1)

\* Number(x.toFixed(2)): round to two decimals, ties away from zero
ToFixed2(r) ==
  IF r.d = 0 THEN r
  ELSE Ratio(Sign(r.n) * ((2 * 100 * Abs(r.n) + r.d) \div (2 * r.d)), 100)

----------------------------------------------------------------------------
(* Trade documents *)

\* seconds in the 24 hours of the day-trade rule
DayLimit == 24 * 60 * 60

ZeroPL == [realized |-> 0, percentage |-> Zero]

\* schema defaults of the derived fields
ResetDerived(t) == [t EXCEPT !.status = "OPEN", !.profitLoss = ZeroPL]

Derived(t) == [status |-> t.status, profitLoss |-> t.profitLoss]

\* route helper: P/L of a request payload / plain trade object
calculateProfitLoss(trade) ==
  IF ~Truthy(trade.exitPrice) \/ ~Truthy(trade.exitQuantity)
  THEN [err |-> FALSE, realized |-> 0, percentage |-> Zero, status |-> "OPEN"]
  ELSE LET entryValue == trade.entryPrice * trade.entryQuantity
           exitValue == trade.exitPrice[1] * trade.exitQuantity[1]
           realizedPL == IF trade.type = "LONG" THEN exitValue - entryValue
                         ELSE entryValue - exitValue
       IN  IF entryValue = 0
           THEN [err |-> TRUE, realized |-> 0, percentage |-> Zero,
                 status |-> "OPEN"]
           ELSE [err |-> FALSE,
                 realized |-> realizedPL,
                 percentage |-> ToFixed2(Ratio(100 * realizedPL, entryValue)),
                 status |-> "CLOSED"]

\* the hook without its reset branch: status and profitLoss of a document
\* without exit details are left as they were
PnLHookNoReset(t) ==
  IF Truthy(t.exitPrice) /\ Truthy(t.exitQuantity) /\ Present(t.exitDate)
  THEN LET entryValue == t.entryPrice * t.entryQuantity
           exitValue == t.exitPrice[1] * t.exitQuantity[1]
           realized == IF t.type = "LONG" THEN exitValue - entryValue
                       ELSE entryValue - exitValue
       IN  [t EXCEPT !.profitLoss =
                        [realized |-> realized,
                         percentage |-> Ratio(100 * realized, entryValue)],
                     !.status = "CLOSED"]
  ELSE t

\* Trade pre("save") hook 1: derive profitLoss and status
PnLHook(t) ==
  IF Truthy(t.exitPrice) /\ Truthy(t.exitQuantity) /\ Present(t.exitDate)
  THEN LET entryValue == t.entryPrice * t.entryQuantity
           exitValue == t.exitPrice[1] * t.exitQuantity[1]
           realized == IF t.type = "LONG" THEN exitValue - entryValue
                       ELSE entryValue - exitValue
       IN  [t EXCEPT !.profitLoss =
                        [realized |-> realized,
                         percentage |-> Ratio(100 * realized, entryValue)],
                     !.status = "CLOSED"]
  ELSE [t EXCEPT !.profitLoss = ZeroPL, !.status = "OPEN"]

\* the option hook with the contract multiplier left out
OptionPnLHookNoMultiplier(o) ==
  IF Truthy(o.exitPrice) /\ Present(o.exitDate)
  THEN LET entryValue == o.entryPrice * o.contracts
           exitValue == o.exitPrice[1] * o.contracts
           realized == IF o.type = "LONG" THEN exitValue - entryValue
                       ELSE entryValue - exitValue
       IN  [o EXCEPT !.profitLoss =
                        [realized |-> realized,
                         percentage |-> Ratio(100 * realized, entryValue),
                         perContract |-> Ratio(realized, o.contracts)],
                     !.status = "CLOSED"]
  ELSE [o EXCEPT !.profitLoss =
                   [realized |-> 0, percentage |-> Zero, perContract |-> Zero],
                 !.status = "OPEN"]

\* OptionTrade pre("save") hook: derive profitLoss and status
OptionPnLHook(o) ==
  IF Truthy(o.exitPrice) /\ Present(o.exitDate)
  THEN LET contractMultiplier == 100
           entryValue == o.entryPrice * o.contracts * contractMultiplier
           exitValue == o.exitPrice[1] * o.contracts * contractMultiplier
           realized == IF o.type = "LONG" THEN exitValue - entryValue
                       ELSE entryValue - exitValue
       IN  [o EXCEPT !.profitLoss =
                        [realized |-> realized,
                         percentage |-> Ratio(100 * realized, entryValue),
                         perContract |-> Ratio(realized, o.contracts)],
                     !.status = "CLOSED"]
  ELSE [o EXCEPT !.profitLoss =
                   [realized |-> 0, percentage |-> Zero, perContract |-> Zero],
                 !.status = "OPEN"]

\* the day-trade hook comparing the signed difference
DayTradeHookSigned(t, validationSameDayAs) ==
  IF t.tradeType = "DAY" /\ Present(t.exitDate)
  THEN IF validationSameDayAs THEN TRUE
       ELSE ~(t.exitDate[1] - t.entryDate > DayLimit)
  ELSE TRUE

\* Trade pre("save") hook 2: a DAY trade with an exit date must have entry
\* and exit within 24 hours, unless the document carries the override
DayTradeHook(t, validationSameDayAs) ==
  IF t.tradeType = "DAY" /\ Present(t.exitDate)
  THEN IF validationSameDayAs THEN TRUE
       ELSE ~(Abs(t.exitDate[1] - t.entryDate) > DayLimit)
  ELSE TRUE

\* schema validators of Trade that run before the save hooks
ValidTrade(t) ==
  /\ t.type \in {"LONG", "SHORT"}
  /\ t.tradeType \in {"DAY", "SWING"}
  /\ t.entryPrice >= 0
  /\ t.entryQuantity >= 1
  /\ (t.exitPrice # None => t.exitPrice[1] >= 0)
  /\ (t.exitQuantity # None => t.exitQuantity[1] >= 0)
  /\ t.status \in {"OPEN", "CLOSED"}

\* schema validators of OptionTrade
ValidOptionTrade(o) ==
  /\ o.type \in {"LONG", "SHORT"}
  /\ o.contracts >= 1
  /\ o.entryPrice >= 0
  /\ (o.exitPrice # None => o.exitPrice[1] >= 0)
  /\ o.status \in {"OPEN", "CLOSED"}

\* document.save() of a Trade: validation, then the two pre-save hooks
SaveTrade(t, validationSameDayAs) ==
  IF ~ValidTrade(t) THEN [err |-> "ValidationError", doc |-> t]
  ELSE LET d == PnLHook(t)
       IN  IF DayTradeHook(d, validationSameDayAs)
           THEN [err |-> "none", doc |-> d]
           ELSE [err |-> "DayTradeError", doc |-> d]

\* document.save() of an OptionTrade: validation, then the pre-save hook
SaveOptionTrade(o) ==
  IF ~ValidOptionTrade(o) THEN [err |-> "ValidationError", doc |-> o]
  ELSE [err |-> "none", doc |-> OptionPnLHook(o)]

----------------------------------------------------------------------------
(* The P/L computations applied to one set of inputs *)

\* how often the probed document is saved again
MaxSaves == 2

EntryDate == 3 * DayLimit

ProbePrices == {0, 10, 12}

ProbeQuantities == {40, 100}

\* status / profitLoss a document may hold before it is recomputed
StaleDerived == [status |-> "CLOSED",
                 profitLoss |-> [realized |-> 999, percentage |-> Ratio(99, 1)]]

FreshDerived == [status |-> "OPEN", profitLoss |-> ZeroPL]

ProbeInputs ==
  { [type |-> ty, tradeType |-> "SWING",
     entryPrice |-> p, entryQuantity |-> q, entryDate |-> EntryDate,
     exitPrice |-> x, exitQuantity |-> xq, exitDate |-> xd,
     status |-> d.status, profitLoss |-> d.profitLoss] :
      ty \in {"LONG", "SHORT"}, p \in ProbePrices, q \in ProbeQuantities,
      x \in {None} \cup {Some(v) : v \in ProbePrices},
      xq \in {None, Some(0)} \cup {Some(v) : v \in ProbeQuantities},
      xd \in {None, Some(EntryDate + 3600)},
      d \in {FreshDerived, StaleDerived} }

\* the option trade with the same direction, prices and quantity
AsOption(t) ==
  [type |-> t.type, contracts |-> t.entryQuantity,
   entryPrice |-> t.entryPrice, entryDate |-> t.entryDate,
   exitPrice |-> t.exitPrice, exitDate |-> t.exitDate,
   status |-> t.status,
   profitLoss |-> [realized |-> t.profitLoss.realized,
                   percentage |-> t.profitLoss.percentage,
                   perContract |-> Zero]]

ProbeIdle == [n |-> 0]

\* compute the state of one trade by every path
ComputeTradeState(input) ==
  /\ probe.n = 0
  /\ LET helper == calculateProfitLoss(input)
         equity == SaveTrade(input, FALSE)
         option == SaveOptionTrade(AsOption(input))
     IN  probe' = [n |-> 1, input |-> input,
                   helper |-> helper,
                   equity |-> equity.doc, equityErr |-> equity.err,
                   option |-> option.doc, optionErr |-> option.err,
                   first |-> [helper |-> helper,
                              equity |-> Derived(equity.doc),
                              option |-> Derived(option.doc)]]
  /\ UNCHANGED <<trades, optionTrades, last, users, inflight, settings>>

\* save the computed documents again
Recompute ==
  /\ probe.n >= 1
  /\ probe.n < MaxSaves
  /\ LET equity == SaveTrade(probe.equity, FALSE)
         option == SaveOptionTrade(probe.option)
     IN  probe' = [probe EXCEPT !.n = @ + 1,
                                !.helper = calculateProfitLoss(probe.equity),
                                !.equity = equity.doc,
                                !.equityErr = equity.err,
                                !.option = option.doc,
                                !.optionErr = option.err]
  /\ UNCHANGED <<trades, optionTrades, last, users, inflight, settings>>

----------------------------------------------------------------------------
(* The stores *)

TradeIds == {1}

NoDoc == <<>>

\* req.user._id of the authenticated caller
Requester == 1

\* request payloads of the equity trade routes; supplied is the status and
\* profitLoss the caller put into the payload, if any
TradeBody(ty, tt, p, q, x, xq, xd, sup) ==
  [type |-> ty, tradeType |-> tt,
   entryPrice |-> p, entryQuantity |-> q, entryDate |-> EntryDate,
   exitPrice |-> x, exitQuantity |-> xq, exitDate |-> xd, supplied |-> sup]

ExitPrices == {None, Some(0), Some(12)}

ExitQuantities == {None, Some(40), Some(100), Some(150)}

\* exit dates around the 24-hour window, before and after the entry
WindowDates ==
  {None, Some(EntryDate - DayLimit - 1), Some(EntryDate - DayLimit),
   Some(EntryDate + DayLimit - 1), Some(EntryDate + DayLimit),
   Some(EntryDate + DayLimit + 1)}

LateExit == Some(EntryDate + DayLimit + 1)

\* payloads that violate a schema range
OutOfRangeBodies ==
  { TradeBody("LONG", "SWING", 10, 100, Some(-5), Some(100), LateExit, None),
    TradeBody("LONG", "SWING", 10, 100, Some(12), Some(-5), LateExit, None),
    TradeBody("LONG", "SWING", -5, 100, None, None, None, None),
    TradeBody("LONG", "SWING", 10, 0, None, None, None, None) }

\* payloads with an entry price of zero, and payloads that carry a status
\* and profitLoss of the caller's choosing
SpecialBodies ==
  { TradeBody("LONG", "SWING", 0, 100, x, Some(100), LateExit, None) :
      x \in {None, Some(12)} }
  \cup
  { TradeBody(ty, "SWING", 10, 100, x, Some(100), LateExit, Some(StaleDerived)) :
      ty \in {"LONG", "SHORT"}, x \in {None, Some(12)} }
  \cup OutOfRangeBodies

CreateBodies ==
  { TradeBody(ty, tt, 10, 100, x, xq, xd, None) :
      ty \in {"LONG", "SHORT"}, tt \in {"DAY", "SWING"},
      x \in ExitPrices, xq \in ExitQuantities, xd \in WindowDates }
  \cup SpecialBodies

UpdateBodies ==
  { TradeBody(ty, tt, 10, 100, x, xq, xd, None) :
      ty \in {"LONG", "SHORT", "ABSENT"}, tt \in {"DAY", "SWING"},
      x \in {None, Some(12)}, xq \in ExitQuantities, xd \in {None, LateExit} }
  \cup
  { TradeBody("LONG", "DAY", 10, 100, Some(0), Some(100), LateExit, None) }
  \cup SpecialBodies

ImportBodies ==
  { TradeBody(ty, tt, 10, 100, x, xq, xd, None) :
      ty \in {"LONG", "SHORT"}, tt \in {"DAY", "SWING"},
      x \in ExitPrices, xq \in ExitQuantities, xd \in {None, LateExit} }
  \cup SpecialBodies

\* x ? Number(x) : null
NumberOrNull(o) == IF Truthy(o) THEN o ELSE None

\* new Trade(payload): schema paths of the payload, defaults for the rest
NewTrade(body) ==
  LET d == IF body.supplied = None THEN FreshDerived ELSE body.supplied[1]
  IN  [type |-> body.type, tradeType |-> body.tradeType,
       entryPrice |-> body.entryPrice, entryQuantity |-> body.entryQuantity,
       entryDate |-> body.entryDate,
       exitPrice |-> body.exitPrice, exitQuantity |-> body.exitQuantity,
       exitDate |-> body.exitDate,
       status |-> d.status, profitLoss |-> d.profitLoss]

Reply(op, code, err) == [op |-> op, code |-> code, err |-> err]

\* POST /: required fields, P/L by the route helper, then Trade.create
CreateTrade(id, body) ==
  /\ trades[id] = NoDoc
  /\ LET missing == body.entryPrice = 0 \/ body.entryQuantity = 0
         tradeForPL == [type |-> body.type,
                        entryPrice |-> body.entryPrice,
                        entryQuantity |-> body.entryQuantity,
                        exitPrice |-> NumberOrNull(body.exitPrice),
                        exitQuantity |-> NumberOrNull(body.exitQuantity)]
         pl == calculateProfitLoss(tradeForPL)
         tradeData == [NewTrade(body) EXCEPT
                         !.status = pl.status,
                         !.profitLoss = [realized |-> pl.realized,
                                         percentage |-> pl.percentage]]
         saved == SaveTrade(tradeData, FALSE)
         err == IF missing THEN "MissingFields"
                ELSE IF pl.err THEN "ZeroEntryValue"
                ELSE saved.err
     IN  /\ trades' = IF err = "none" THEN [trades EXCEPT ![id] = Some(saved.doc)]
                      ELSE trades
         /\ last' = [op |-> "create",
                     code |-> IF err = "none" THEN 201 ELSE 400,
                     err |-> err, body |-> body, pl |-> pl]
  /\ UNCHANGED <<optionTrades, probe, users, inflight, settings>>

\* the update with the write made before the P/L and the validators are
\* checked
UpdateTradeUnvalidated(id, body, undefinedAsNull) ==
  /\ trades[id] # NoDoc
  /\ LET trade == trades[id][1]
         tradeForPL == [type |-> body.type,
                        entryPrice |-> body.entryPrice,
                        entryQuantity |-> body.entryQuantity,
                        exitPrice |-> NumberOrNull(body.exitPrice),
                        exitQuantity |-> NumberOrNull(body.exitQuantity)]
         pl == calculateProfitLoss(tradeForPL)
         Undefined(stored) == IF undefinedAsNull THEN None ELSE stored
         updated ==
           [type |-> IF body.type = "ABSENT" THEN trade.type ELSE body.type,
            tradeType |-> body.tradeType,
            entryPrice |-> body.entryPrice,
            entryQuantity |-> body.entryQuantity,
            entryDate |-> body.entryDate,
            exitPrice |-> IF Truthy(body.exitPrice) THEN body.exitPrice
                          ELSE Undefined(trade.exitPrice),
            exitQuantity |-> IF Truthy(body.exitQuantity) THEN body.exitQuantity
                             ELSE Undefined(trade.exitQuantity),
            exitDate |-> body.exitDate,
            status |-> pl.status,
            profitLoss |-> [realized |-> pl.realized,
                            percentage |-> pl.percentage]]
         err == IF pl.err THEN "ZeroEntryValue"
                ELSE IF ~ValidTrade(updated) THEN "ValidationError"
                ELSE "none"
     IN  /\ trades' = [trades EXCEPT ![id] = Some(updated)]
         /\ last' = [op |-> "update",
                     code |-> IF err = "none" THEN 200 ELSE 400,
                     err |-> err,
                     wasClosed |-> /\ trade.status = "CLOSED"
                                   /\ Truthy(trade.exitPrice)
                                   /\ Truthy(trade.exitQuantity),
                     noExit |-> ~Truthy(body.exitPrice)
                                  \/ ~Truthy(body.exitQuantity),
                     supplied |-> body.supplied # None]
  /\ UNCHANGED <<optionTrades, probe, users, inflight, settings>>

\* PUT /:id: P/L by the route helper, then findByIdAndUpdate with update
\* validators and without save hooks.  A key set to undefined is dropped
\* from the update or written as null, depending on the Mongoose release.
UpdateTrade(id, body, undefinedAsNull) ==
  /\ trades[id] # NoDoc
  /\ LET trade == trades[id][1]
         tradeForPL == [type |-> body.type,
                        entryPrice |-> body.entryPrice,
                        entryQuantity |-> body.entryQuantity,
                        exitPrice |-> NumberOrNull(body.exitPrice),
                        exitQuantity |-> NumberOrNull(body.exitQuantity)]
         pl == calculateProfitLoss(tradeForPL)
         Undefined(stored) == IF undefinedAsNull THEN None ELSE stored
         updated ==
           [type |-> IF body.type = "ABSENT" THEN trade.type ELSE body.type,
            tradeType |-> body.tradeType,
            entryPrice |-> body.entryPrice,
            entryQuantity |-> body.entryQuantity,
            entryDate |-> body.entryDate,
            exitPrice |-> IF Truthy(body.exitPrice) THEN body.exitPrice
                          ELSE Undefined(trade.exitPrice),
            exitQuantity |-> IF Truthy(body.exitQuantity) THEN body.exitQuantity
                             ELSE Undefined(trade.exitQuantity),
            exitDate |-> body.exitDate,
            status |-> pl.status,
            profitLoss |-> [realized |-> pl.realized,
                            percentage |-> pl.percentage]]
         err == IF pl.err THEN "ZeroEntryValue"
                ELSE IF ~ValidTrade(updated) THEN "ValidationError"
                ELSE "none"
     IN  /\ trades' = IF err = "none" THEN [trades EXCEPT ![id] = Some(updated)]
                      ELSE trades
         /\ last' = [op |-> "update",
                     code |-> IF err = "none" THEN 200 ELSE 400,
                     err |-> err,
                     wasClosed |-> /\ trade.status = "CLOSED"
                                   /\ Truthy(trade.exitPrice)
                                   /\ Truthy(trade.exitQuantity),
                     noExit |-> ~Truthy(body.exitPrice)
                                  \/ ~Truthy(body.exitQuantity),
                     supplied |-> body.supplied # None]
  /\ UNCHANGED <<optionTrades, probe, users, inflight, settings>>

\* PUT /:id for an id that is not a trade of the user
UpdateMissingTrade(id) ==
  /\ trades[id] = NoDoc
  /\ last' = Reply("update", 404, "NotFound")
  /\ UNCHANGED <<trades, optionTrades, probe, users, inflight, settings>>

\* POST /import: Trade.insertMany validates each document and runs no
\* save hook; nothing is inserted when a document is invalid
ImportTrades(id, batch) ==
  /\ trades[id] = NoDoc
  /\ LET docs == [k \in DOMAIN batch |-> NewTrade(batch[k])]
         err == IF \A k \in DOMAIN docs : ValidTrade(docs[k]) THEN "none"
                ELSE "ValidationError"
     IN  /\ trades' = IF err = "none" /\ docs # <<>>
                      THEN [trades EXCEPT ![id] = Some(docs[1])]
                      ELSE trades
         /\ last' = [op |-> "import",
                     code |-> IF err = "none" THEN 200 ELSE 400,
                     err |-> err,
                     supplied |-> \E k \in DOMAIN batch :
                                     batch[k].supplied # None]
  /\ UNCHANGED <<optionTrades, probe, users, inflight, settings>>

\* DELETE /:id
DeleteTrade(id) ==
  /\ trades[id] # NoDoc
  /\ trades' = [trades EXCEPT ![id] = NoDoc]
  /\ last' = Reply("delete", 200, "none")
  /\ UNCHANGED <<optionTrades, probe, users, inflight, settings>>

----------------------------------------------------------------------------
(* The option trade routes *)

ZeroOptionPL == [realized |-> 0, percentage |-> Zero, perContract |-> Zero]

StaleOptionDerived ==
  [status |-> "CLOSED",
   profitLoss |-> [realized |-> 999, percentage |-> Ratio(99, 1),
                   perContract |-> Ratio(9, 1)]]

FreshOptionDerived == [status |-> "OPEN", profitLoss |-> ZeroOptionPL]

\* payload of POST /api/option-trades
OptionBody(ty, c, p, x, xd, sup) ==
  [type |-> ty, contracts |-> c, entryPrice |-> p, entryDate |-> EntryDate,
   exitPrice |-> x, exitDate |-> xd, supplied |-> sup]

OptionCreateBodies ==
  { OptionBody(ty, 100, p, x, xd, sup) :
      ty \in {"LONG", "SHORT"}, p \in {0, 10},
      x \in ExitPrices, xd \in {None, LateExit},
      sup \in {None, Some(StaleOptionDerived)} }
  \cup
  { OptionBody("LONG", 0, 10, None, None, None),
    OptionBody("LONG", 100, 10, Some(-5), LateExit, None) }

\* payload of PUT /api/option-trades/:id: None is a key the payload does
\* not have, Some(v) a key with value v (v = None for an explicit null)
OptionPatch(ty, c, p, x, xd, sup) ==
  [type |-> ty, contracts |-> c, entryPrice |-> p,
   exitPrice |-> x, exitDate |-> xd, supplied |-> sup]

OptionUpdateBodies ==
  { OptionPatch(None, None, p, x, xd, None) :
      p \in {None, Some(0), Some(12)},
      x \in {None, Some(None), Some(Some(0)), Some(Some(12))},
      xd \in {None, Some(None), Some(LateExit)} }
  \cup
  { OptionPatch(Some("SHORT"), None, None, None, None, None),
    OptionPatch(None, Some(40), None, None, None, None),
    OptionPatch(None, Some(0), None, None, None, None),
    OptionPatch(None, None, None, Some(Some(-5)), None, None),
    OptionPatch(None, None, None, Some(None), Some(None),
                Some(FreshOptionDerived)),
    OptionPatch(None, None, None, Some(Some(12)), Some(LateExit),
                Some(StaleOptionDerived)) }

\* new OptionTrade(payload)
NewOptionTrade(body) ==
  LET d == IF body.supplied = None THEN FreshOptionDerived
           ELSE body.supplied[1]
  IN  [type |-> body.type, contracts |-> body.contracts,
       entryPrice |-> body.entryPrice, entryDate |-> body.entryDate,
       exitPrice |-> body.exitPrice, exitDate |-> body.exitDate,
       status |-> d.status, profitLoss |-> d.profitLoss]

\* POST /: OptionTrade.create
CreateOptionTrade(id, body) ==
  /\ optionTrades[id] = NoDoc
  /\ LET saved == SaveOptionTrade(NewOptionTrade(body))
     IN  /\ optionTrades' = IF saved.err = "none"
                            THEN [optionTrades EXCEPT ![id] = Some(saved.doc)]
                            ELSE optionTrades
         /\ last' = [op |-> "optionCreate",
                     code |-> IF saved.err = "none" THEN 201 ELSE 400,
                     err |-> saved.err,
                     supplied |-> body.supplied # None]
  /\ UNCHANGED <<trades, probe, users, inflight, settings>>

\* PUT /:id: findByIdAndUpdate with the payload as it came, update
\* validators on, no save hook
UpdateOptionTrade(id, body) ==
  /\ optionTrades[id] # NoDoc
  /\ LET trade == optionTrades[id][1]
         Patch(given, stored) == IF given = None THEN stored ELSE given[1]
         d == Patch(body.supplied, Derived(trade))
         updated ==
           [type |-> Patch(body.type, trade.type),
            contracts |-> Patch(body.contracts, trade.contracts),
            entryPrice |-> Patch(body.entryPrice, trade.entryPrice),
            entryDate |-> trade.entryDate,
            exitPrice |-> Patch(body.exitPrice, trade.exitPrice),
            exitDate |-> Patch(body.exitDate, trade.exitDate),
            status |-> d.status, profitLoss |-> d.profitLoss]
         err == IF ValidOptionTrade(updated) THEN "none" ELSE "ValidationError"
     IN  /\ optionTrades' = IF err = "none"
                            THEN [optionTrades EXCEPT ![id] = Some(updated)]
                            ELSE optionTrades
         /\ last' = [op |-> "optionUpdate",
                     code |-> IF err = "none" THEN 200 ELSE 400,
                     err |-> err,
                     wasClosed |-> /\ trade.status = "CLOSED"
                                   /\ Truthy(trade.exitPrice)
                                   /\ Present(trade.exitDate),
                     noExit |-> body.exitPrice = Some(None)
                                  /\ body.exitDate = Some(None),
                     supplied |-> body.supplied # None]
  /\ UNCHANGED <<trades, probe, users, inflight, settings>>

\* PUT /:id for an id that is not an option trade of the user
UpdateMissingOptionTrade(id) ==
  /\ optionTrades[id] = NoDoc
  /\ last' = Reply("optionUpdate", 404, "NotFound")
  /\ UNCHANGED <<trades, optionTrades, probe, users, inflight, settings>>

\* DELETE /:id
DeleteOptionTrade(id) ==
  /\ optionTrades[id] # NoDoc
  /\ optionTrades' = [optionTrades EXCEPT ![id] = NoDoc]
  /\ last' = Reply("optionDelete", 200, "none")
  /\ UNCHANGED <<trades, probe, users, inflight, settings>>

----------------------------------------------------------------------------
(* Saves of one Trade document that may carry the day-trade override.      *)
(* `probe` holds the document (doc), its _validationSameDayAs property     *)
(* (override) and the record of its saves.                                 *)

\* documents handed to save(): a DAY or SWING trade of 100 units bought at
\* 10, open or sold at 12, and one with an entry price out of range
OverrideInputs ==
  { [type |-> "LONG", tradeType |-> tt,
     entryPrice |-> p, entryQuantity |-> 100, entryDate |-> EntryDate,
     exitPrice |-> x, exitQuantity |-> IF x = None THEN None ELSE Some(100),
     exitDate |-> None, status |-> "OPEN", profitLoss |-> ZeroPL] :
      tt \in {"DAY", "SWING"}, p \in {10, -5}, x \in {None, Some(12)} }

\* a hook that leaves _validationSameDayAs as it found it
OverrideKept(t, validationSameDayAs) == validationSameDayAs

\* _validationSameDayAs after the pre-save hooks ran on the document: the
\* day-trade hook unsets it in the branch that uses it
OverrideAfterSave(t, validationSameDayAs) ==
  IF t.tradeType = "DAY" /\ Present(t.exitDate) /\ validationSameDayAs
  THEN FALSE
  ELSE validationSameDayAs

\* new Trade(payload)
NewDocument(input) ==
  /\ probe = ProbeIdle
  /\ probe' = [n |-> 0, doc |-> input, override |-> FALSE,
               touched |-> FALSE, saves |-> <<>>]
  /\ UNCHANGED <<trades, optionTrades, last, users, inflight, settings>>

\* doc._validationSameDayAs = <a truthy value>
SetOverride ==
  /\ probe # ProbeIdle
  /\ ~probe.override
  /\ probe' = [probe EXCEPT !.override = TRUE, !.touched = TRUE]
  /\ UNCHANGED <<trades, optionTrades, last, users, inflight, settings>>

\* doc.exitDate = <date or null>
SetExitDate(exitDate) ==
  /\ probe # ProbeIdle
  /\ probe.doc.exitDate # exitDate
  /\ probe' = [probe EXCEPT !.doc.exitDate = exitDate]
  /\ UNCHANGED <<trades, optionTrades, last, users, inflight, settings>>

\* doc.save(): the hooks run when validation passed; the record keeps the
\* override before and after, and whether it was set since the last save
SaveDocument ==
  /\ probe # ProbeIdle
  /\ probe.n < MaxSaves
  /\ LET saved == SaveTrade(probe.doc, probe.override)
         after == IF saved.err = "ValidationError" THEN probe.override
                  ELSE OverrideAfterSave(saved.doc, probe.override)
     IN  probe' = [n |-> probe.n + 1, doc |-> saved.doc, override |-> after,
                   touched |-> FALSE,
                   saves |-> Append(probe.saves,
                     [doc |-> probe.doc, override |-> probe.override,
                      touched |-> probe.touched, err |-> saved.err,
                      after |-> after])]
  /\ UNCHANGED <<trades, optionTrades, last, users, inflight, settings>>

NextOverride ==
  \/ \E input \in OverrideInputs : NewDocument(input)
  \/ SetOverride
  \/ \E exitDate \in WindowDates : SetExitDate(exitDate)
  \/ SaveDocument

----------------------------------------------------------------------------
(* Settings cache (middleware/maintenanceMiddleware.js) and the admin      *)
(* settings update.  `settings` holds the Settings document of the         *)
(* database (db), the two globals of the middleware and the clock;         *)
(* `inflight` holds the requests suspended at an await.  A settings        *)
(* document is its maintenanceMode.enabled flag and the number of saves    *)
(* that produced it (revision).                                            *)

CacheTtl == 1000

MaxTicks == 2

MaxUpdates == 2

MaxInflight == 2

\* the document Settings.getSettings creates when none exists
DefaultSettings == [revision |-> 0, enabled |-> FALSE]

\* global.cachedSettings = null; global.lastFetched = 0
NoSettings ==
  [db |-> DefaultSettings, cachedSettings |-> None, lastFetched |-> 0,
   now |-> 2 * CacheTtl, acknowledged |-> 0]

\* the sequence without its i-th element
Without(seq, i) == SubSeq(seq, 1, i - 1) \o SubSeq(seq, i + 1, Len(seq))

\* the decision the maintenance middleware takes on the settings it got
Decision(began, decided) ==
  [op |-> "maintenance", code |-> IF decided.enabled THEN 503 ELSE 200,
   err |-> "none", began |-> began, decided |-> decided]

\* Date.now() advances
Tick ==
  /\ settings.now < 2 * CacheTtl + MaxTicks * (CacheTtl \div 2)
  /\ settings' = [settings EXCEPT !.now = @ + CacheTtl \div 2]
  /\ UNCHANGED <<trades, optionTrades, last, probe, users, inflight>>

\* a maintenance check calls getCachedSettings: a fresh cache answers at
\* once, otherwise the call suspends on Settings.getSettings()
getCachedSettings ==
  IF /\ Present(settings.cachedSettings)
     /\ settings.now - settings.lastFetched < CacheTtl
  THEN /\ last' = Decision(settings.acknowledged, settings.cachedSettings[1])
       /\ UNCHANGED <<trades, optionTrades, probe, users, inflight, settings>>
  ELSE /\ Len(inflight) < MaxInflight
       /\ inflight' = Append(inflight,
            [op |-> "getCachedSettings", pc |-> "getSettings",
             now |-> settings.now, began |-> settings.acknowledged,
             settings |-> DefaultSettings])
       /\ UNCHANGED <<trades, optionTrades, last, probe, users, settings>>

\* the database answers the suspended call's query
GetSettings(i) ==
  /\ inflight[i].op = "getCachedSettings"
  /\ inflight[i].pc = "getSettings"
  /\ inflight' = [inflight EXCEPT ![i].settings = settings.db,
                                  ![i].pc = "assign"]
  /\ UNCHANGED <<trades, optionTrades, last, probe, users, settings>>

\* the call resumes: it stores what it read in the globals, with the time
\* taken when it began, and the middleware decides on it
AssignCachedSettings(i) ==
  /\ inflight[i].op = "getCachedSettings"
  /\ inflight[i].pc = "assign"
  /\ settings' = [settings EXCEPT
                    !.cachedSettings = Some(inflight[i].settings),
                    !.lastFetched = inflight[i].now]
  /\ last' = Decision(inflight[i].began, inflight[i].settings)
  /\ inflight' = Without(inflight, i)
  /\ UNCHANGED <<trades, optionTrades, probe, users>>

\* PUT /settings arrives and suspends on Settings.getSettings()
PutSettings(enabled) ==
  /\ Len(inflight) < MaxInflight
  /\ settings.db.revision
       + Cardinality({i \in DOMAIN inflight : inflight[i].op = "putSettings"})
       < MaxUpdates
  /\ inflight' = Append(inflight,
       [op |-> "putSettings", pc |-> "getSettings", enabled |-> enabled,
        settings |-> DefaultSettings])
  /\ UNCHANGED <<trades, optionTrades, last, probe, users, settings>>

\* the update gets the current document and changes it in memory
PutGetSettings(i) ==
  /\ inflight[i].op = "putSettings"
  /\ inflight[i].pc = "getSettings"
  /\ inflight' = [inflight EXCEPT
                    ![i].settings = [settings.db EXCEPT
                                       !.enabled = inflight[i].enabled],
                    ![i].pc = "save"]
  /\ UNCHANGED <<trades, optionTrades, last, probe, users, settings>>

\* await settings.save()
PutSaveSettings(i) ==
  /\ inflight[i].op = "putSettings"
  /\ inflight[i].pc = "save"
  /\ LET saved == [inflight[i].settings EXCEPT
                     !.revision = settings.db.revision + 1]
     IN  /\ settings' = [settings EXCEPT !.db = saved]
         /\ inflight' = [inflight EXCEPT ![i].settings = saved,
                                         ![i].pc = "invalidate"]
  /\ UNCHANGED <<trades, optionTrades, last, probe, users>>

\* the update resumes after the save: it resets the globals if a value is
\* cached, and answers
PutInvalidate(i) ==
  /\ inflight[i].op = "putSettings"
  /\ inflight[i].pc = "invalidate"
  /\ LET reset == IF Present(settings.cachedSettings)
                  THEN [settings EXCEPT !.cachedSettings = None,
                                        !.lastFetched = 0]
                  ELSE settings
         revision == inflight[i].settings.revision
     IN  settings' = [reset EXCEPT !.acknowledged =
                        IF revision > @ THEN revision ELSE @]
  /\ last' = Reply("putSettings", 200, "none")
  /\ inflight' = Without(inflight, i)
  /\ UNCHANGED <<trades, optionTrades, probe, users>>

NextCache ==
  \/ Tick
  \/ getCachedSettings
  \/ \E i \in DOMAIN inflight : GetSettings(i)
  \/ \E i \in DOMAIN inflight : AssignCachedSettings(i)
  \/ \E enabled \in BOOLEAN : PutSettings(enabled)
  \/ \E i \in DOMAIN inflight : PutGetSettings(i)
  \/ \E i \in DOMAIN inflight : PutSaveSettings(i)
  \/ \E i \in DOMAIN inflight : PutInvalidate(i)

----------------------------------------------------------------------------
(* Specifications *)

Init ==
  /\ trades = [i \in TradeIds |-> NoDoc]
  /\ optionTrades = [i \in TradeIds |-> NoDoc]
  /\ last = Reply("none", 0, "none")
  /\ probe = ProbeIdle
  /\ users = <<Requester>>
  /\ inflight = <<>>
  /\ settings = NoSettings

NextCalc ==
  \/ \E input \in ProbeInputs : ComputeTradeState(input)
  \/ Recompute

SpecCalc == Init /\ [][NextCalc]_vars

Next ==
  \/ \E id \in TradeIds, body \in CreateBodies : CreateTrade(id, body)
  \/ \E id \in TradeIds, body \in UpdateBodies, undefinedAsNull \in BOOLEAN :
       UpdateTrade(id, body, undefinedAsNull)
  \/ \E id \in TradeIds : UpdateMissingTrade(id)
  \/ \E id \in TradeIds, body \in ImportBodies : ImportTrades(id, <<body>>)
  \/ \E id \in TradeIds : ImportTrades(id, <<>>)
  \/ \E id \in TradeIds : DeleteTrade(id)

Spec == Init /\ [][Next]_vars

NextOption ==
  \/ \E id \in TradeIds, body \in OptionCreateBodies :
       CreateOptionTrade(id, body)
  \/ \E id \in TradeIds, body \in OptionUpdateBodies :
       UpdateOptionTrade(id, body)
  \/ \E id \in TradeIds : UpdateMissingOptionTrade(id)
  \/ \E id \in TradeIds : DeleteOptionTrade(id)

SpecOption == Init /\ [][NextOption]_vars

SpecCache == Init /\ [][NextCache]_vars

SpecOverride == Init /\ [][NextOverride]_vars

----------------------------------------------------------------------------
(* Equity trades of several users.  A stored document carries its owner    *)
(* (user) and its postExitAnalysis; a payload may carry both as well.      *)
(* PUT /:id is also taken apart into its two database steps, findOne and   *)
(* findByIdAndUpdate: `inflight` then holds the requests that have read the *)
(* trade, each with the document it read.                                  *)

\* another registered user
OtherUser == 2

MaxOwnedTrades == 2

OwnedIds == 1..MaxOwnedTrades

\* schema defaults of postExitAnalysis
NoAnalysis == [lowBeforeHigh |-> None, timeOfLow |-> None, timeOfHigh |-> None]

\* req.body.postExitAnalysis: absent, or an object
Analyses ==
  { None,
    Some([lowBeforeHigh |-> Some(TRUE), timeOfLow |-> Some(EntryDate + 7200),
          timeOfHigh |-> None]),
    Some([lowBeforeHigh |-> Some(FALSE), timeOfLow |-> None,
          timeOfHigh |-> Some(EntryDate + 7200)]) }

\* a payload with a `user` key (None when it has none) and postExitAnalysis
OwnedBody(body, user, analysis) ==
  body @@ [user |-> user, postExitAnalysis |-> analysis]

\* the exits of the owned trades' payloads: none, or 100 units sold at 12
OwnedExits ==
  { [exitPrice |-> None, exitQuantity |-> None, exitDate |-> None],
    [exitPrice |-> Some(12), exitQuantity |-> Some(100), exitDate |-> LateExit] }

\* payloads of the owned trades: 100 units bought at 10, open or sold
OwnedBodies ==
  { OwnedBody(TradeBody("LONG", "SWING", 10, 100, exit.exitPrice,
                        exit.exitQuantity, exit.exitDate, None),
              user, analysis) :
      exit \in OwnedExits,
      user \in {None, Some(Requester), Some(OtherUser)},
      analysis \in {a \in Analyses :
                      a = None \/ a[1].lowBeforeHigh = Some(TRUE)} }

\* payloads of the concurrent updates
RaceBodies ==
  { OwnedBody(TradeBody("LONG", "SWING", 10, 100, exit.exitPrice,
                        exit.exitQuantity, exit.exitDate, None),
              None, analysis) :
      exit \in OwnedExits, analysis \in Analyses }

\* a ?? b
Coalesce(a, b) == IF a # None THEN a ELSE b

\* tradeData of POST /: the payload with user overwritten by the caller and
\* postExitAnalysis filled with `|| null`
NewOwnedTrade(user, body) ==
  LET given == IF body.postExitAnalysis = None THEN NoAnalysis
               ELSE body.postExitAnalysis[1]
  IN  [user |-> user,
       postExitAnalysis |->
         [lowBeforeHigh |-> IF given.lowBeforeHigh = Some(TRUE)
                            THEN Some(TRUE) ELSE None,
          timeOfLow |-> NumberOrNull(given.timeOfLow),
          timeOfHigh |-> NumberOrNull(given.timeOfHigh)]]
      @@ NewTrade(body)

\* POST /: required fields, P/L by the route helper, then Trade.create
CreateOwnedTrade(user, id, body) ==
  /\ trades[id] = NoDoc
  /\ LET missing == body.entryPrice = 0 \/ body.entryQuantity = 0
         tradeForPL == [type |-> body.type,
                        entryPrice |-> body.entryPrice,
                        entryQuantity |-> body.entryQuantity,
                        exitPrice |-> NumberOrNull(body.exitPrice),
                        exitQuantity |-> NumberOrNull(body.exitQuantity)]
         pl == calculateProfitLoss(tradeForPL)
         tradeData == [NewOwnedTrade(user, body) EXCEPT
                         !.status = pl.status,
                         !.profitLoss = [realized |-> pl.realized,
                                         percentage |-> pl.percentage]]
         saved == SaveTrade(tradeData, FALSE)
         err == IF missing THEN "MissingFields"
                ELSE IF pl.err THEN "ZeroEntryValue"
                ELSE saved.err
     IN  /\ trades' = IF err = "none" THEN [trades EXCEPT ![id] = Some(saved.doc)]
                      ELSE trades
         /\ last' = [op |-> "create",
                     code |-> IF err = "none" THEN 201 ELSE 400,
                     err |-> err, user |-> user]
  /\ UNCHANGED <<optionTrades, probe, users, inflight, settings>>

\* updatedData of PUT /:id, built from the payload and from the trade that
\* findOne returned.  An optional field is None when its key is undefined
\* or absent, Some(v) when it has the value v.
updatedData(trade, body) ==
  LET given == IF body.postExitAnalysis = None THEN NoAnalysis
               ELSE body.postExitAnalysis[1]
      tradeForPL == [type |-> body.type,
                     entryPrice |-> body.entryPrice,
                     entryQuantity |-> body.entryQuantity,
                     exitPrice |-> NumberOrNull(body.exitPrice),
                     exitQuantity |-> NumberOrNull(body.exitQuantity)]
      pl == calculateProfitLoss(tradeForPL)
  IN  [err |-> pl.err,
       user |-> body.user,
       type |-> body.type, tradeType |-> body.tradeType,
       entryPrice |-> body.entryPrice, entryQuantity |-> body.entryQuantity,
       entryDate |-> body.entryDate,
       exitPrice |-> IF Truthy(body.exitPrice) THEN Some(body.exitPrice)
                     ELSE None,
       exitQuantity |-> IF Truthy(body.exitQuantity)
                        THEN Some(body.exitQuantity) ELSE None,
       exitDate |-> body.exitDate,
       postExitAnalysis |->
         [lowBeforeHigh |-> Coalesce(given.lowBeforeHigh,
                                     trade.postExitAnalysis.lowBeforeHigh),
          timeOfLow |-> Coalesce(given.timeOfLow,
                                 trade.postExitAnalysis.timeOfLow),
          timeOfHigh |-> Coalesce(given.timeOfHigh,
                                  trade.postExitAnalysis.timeOfHigh)],
       status |-> pl.status,
       profitLoss |-> [realized |-> pl.realized,
                       percentage |-> pl.percentage]]

\* the document findByIdAndUpdate leaves: the keys of the update replace
\* the stored values, an undefined key is dropped or written as null
ApplyUpdate(stored, data, undefinedAsNull) ==
  LET Undefined(kept) == IF undefinedAsNull THEN None ELSE kept
  IN  [user |-> IF data.user = None THEN stored.user ELSE data.user[1],
       type |-> IF data.type = "ABSENT" THEN stored.type ELSE data.type,
       tradeType |-> data.tradeType,
       entryPrice |-> data.entryPrice,
       entryQuantity |-> data.entryQuantity,
       entryDate |-> data.entryDate,
       exitPrice |-> IF data.exitPrice # None THEN data.exitPrice[1]
                     ELSE Undefined(stored.exitPrice),
       exitQuantity |-> IF data.exitQuantity # None THEN data.exitQuantity[1]
                        ELSE Undefined(stored.exitQuantity),
       exitDate |-> data.exitDate,
       postExitAnalysis |-> data.postExitAnalysis,
       status |-> data.status,
       profitLoss |-> data.profitLoss]

\* the trade the handler builds updatedData from, when the write reaches the
\* database: a handler that read the trade again at that moment
TradeReadAgain(request, stored) == stored

\* the trade the handler builds updatedData from: the one findOne returned
TradeRead(request, stored) == request.trade

\* the outcome of findByIdAndUpdate(id, updatedData, runValidators) issued
\* by the request, on the collection as it is now
WriteOf(request, undefinedAsNull) ==
  IF trades[request.id] = NoDoc
  THEN [err |-> "TypeError", trades |-> trades]
  ELSE LET stored == trades[request.id][1]
           data == updatedData(TradeRead(request, stored), request.body)
           updated == ApplyUpdate(stored, data, undefinedAsNull)
           err == IF data.err THEN "ZeroEntryValue"
                  ELSE IF ~ValidTrade(updated) THEN "ValidationError"
                  ELSE "none"
       IN  [err |-> err,
            trades |-> IF err = "none"
                       THEN [trades EXCEPT ![request.id] = Some(updated)]
                       ELSE trades]

\* Trade.findOne({ _id, user })
FindOne(user, id) ==
  IF trades[id] # NoDoc /\ trades[id][1].user = user THEN trades[id]
  ELSE NoDoc

\* PUT /:id served without another request in between
UpdateOwnedTrade(user, id, body, undefinedAsNull) ==
  /\ IF FindOne(user, id) = NoDoc
     THEN /\ last' = [op |-> "update", code |-> 404, err |-> "NotFound",
                      user |-> user]
          /\ UNCHANGED trades
     ELSE LET request == [id |-> id, user |-> user, body |-> body,
                          trade |-> FindOne(user, id)[1]]
              write == WriteOf(request, undefinedAsNull)
          IN  /\ trades' = write.trades
              /\ last' = [op |-> "update",
                          code |-> IF write.err = "none" THEN 200 ELSE 400,
                          err |-> write.err, user |-> user]
  /\ UNCHANGED <<optionTrades, probe, users, inflight, settings>>

\* DELETE /:id
DeleteOwnedTrade(user, id) ==
  /\ IF FindOne(user, id) = NoDoc
     THEN /\ last' = [op |-> "delete", code |-> 404, err |-> "NotFound",
                      user |-> user]
          /\ UNCHANGED trades
     ELSE /\ trades' = [trades EXCEPT ![id] = NoDoc]
          /\ last' = [op |-> "delete", code |-> 200, err |-> "none",
                      user |-> user]
  /\ UNCHANGED <<optionTrades, probe, users, inflight, settings>>

\* POST /bulk-delete
BulkDeleteTrades(user, tradeIds) ==
  /\ LET found == {id \in tradeIds : FindOne(user, id) # NoDoc}
         err == IF tradeIds = {} THEN "NoTradeIds"
                ELSE IF Cardinality(found) # Cardinality(tradeIds)
                THEN "Unauthorized"
                ELSE "none"
     IN  /\ trades' = IF err = "none"
                      THEN [id \in DOMAIN trades |->
                              IF id \in found THEN NoDoc ELSE trades[id]]
                      ELSE trades
         /\ last' = [op |-> "bulkDelete",
                     code |-> IF err = "none" THEN 200
                              ELSE IF err = "Unauthorized" THEN 403 ELSE 400,
                     err |-> err, user |-> user]
  /\ UNCHANGED <<optionTrades, probe, users, inflight, settings>>

\* POST /import: every trade of the payload gets the caller as its user,
\* then Trade.insertMany
ImportOwnedTrades(user, id, batch) ==
  /\ trades[id] = NoDoc
  /\ LET docs == [k \in DOMAIN batch |->
                    [user |-> user,
                     postExitAnalysis |->
                       IF batch[k].postExitAnalysis = None THEN NoAnalysis
                       ELSE batch[k].postExitAnalysis[1]]
                    @@ NewTrade(batch[k])]
         err == IF \A k \in DOMAIN docs : ValidTrade(docs[k]) THEN "none"
                ELSE "ValidationError"
     IN  /\ trades' = IF err = "none" /\ docs # <<>>
                      THEN [trades EXCEPT ![id] = Some(docs[1])]
                      ELSE trades
         /\ last' = [op |-> "import",
                     code |-> IF err = "none" THEN 200 ELSE 400,
                     err |-> err, user |-> user]
  /\ UNCHANGED <<optionTrades, probe, users, inflight, settings>>

\* PUT /:id, first step: findOne answers; the request is refused with 404
\* or waits for its write with the trade it read
PutFindOne(user, id, body) ==
  /\ Len(inflight) < MaxInflight
  /\ IF FindOne(user, id) = NoDoc
     THEN /\ last' = [op |-> "update", code |-> 404, err |-> "NotFound",
                      user |-> user]
          /\ UNCHANGED inflight
     ELSE /\ inflight' = Append(inflight,
               [op |-> "put", pc |-> "findByIdAndUpdate", id |-> id,
                user |-> user, body |-> body, trade |-> FindOne(user, id)[1],
                stored |-> NoDoc, written |-> NoDoc, err |-> "none"])
          /\ UNCHANGED last
  /\ UNCHANGED <<trades, optionTrades, probe, users, settings>>

\* PUT /:id, second step: findByIdAndUpdate reaches the database and the
\* request is answered; the record keeps what was stored before and after
PutFindByIdAndUpdate(i, undefinedAsNull) ==
  /\ inflight[i].op = "put"
  /\ inflight[i].pc = "findByIdAndUpdate"
  /\ LET write == WriteOf(inflight[i], undefinedAsNull)
     IN  /\ trades' = write.trades
         /\ inflight' = [inflight EXCEPT ![i].pc = "done",
                                         ![i].stored = trades[inflight[i].id],
                                         ![i].written =
                                           write.trades[inflight[i].id],
                                         ![i].err = write.err]
         /\ last' = [op |-> "update",
                     code |-> IF write.err = "none" THEN 200 ELSE 400,
                     err |-> write.err, user |-> inflight[i].user]
  /\ UNCHANGED <<optionTrades, probe, users, settings>>

\* the collections of the owned trades, empty, and two registered users
InitOwner ==
  /\ trades = [id \in OwnedIds |-> NoDoc]
  /\ optionTrades = [id \in OwnedIds |-> NoDoc]
  /\ last = Reply("none", 0, "none")
  /\ probe = ProbeIdle
  /\ users = <<Requester, OtherUser>>
  /\ inflight = <<>>
  /\ settings = NoSettings

NextOwner ==
  \/ \E user \in {Requester, OtherUser}, id \in OwnedIds, body \in OwnedBodies :
       CreateOwnedTrade(user, id, body)
  \/ \E user \in {Requester, OtherUser}, id \in OwnedIds, body \in OwnedBodies,
        undefinedAsNull \in BOOLEAN :
       UpdateOwnedTrade(user, id, body, undefinedAsNull)
  \/ \E user \in {Requester, OtherUser}, id \in OwnedIds :
       DeleteOwnedTrade(user, id)
  \/ \E user \in {Requester, OtherUser}, tradeIds \in SUBSET OwnedIds :
       BulkDeleteTrades(user, tradeIds)
  \/ \E user \in {Requester, OtherUser}, id \in OwnedIds, body \in OwnedBodies :
       ImportOwnedTrades(user, id, <<body>>)

SpecOwner == InitOwner /\ [][NextOwner]_vars

NextRace ==
  \/ \E id \in TradeIds, body \in RaceBodies :
       CreateOwnedTrade(Requester, id, body)
  \/ \E id \in TradeIds, body \in RaceBodies :
       PutFindOne(Requester, id, body)
  \/ \E i \in DOMAIN inflight, undefinedAsNull \in BOOLEAN :
       PutFindByIdAndUpdate(i, undefinedAsNull)

SpecRace == Init /\ [][NextRace]_vars

----------------------------------------------------------------------------
(* Properties of the P/L computations (SpecCalc) *)

Computed == probe.n >= 1

\* the probed inputs describe an exit of the given quantity at a recorded
\* price and date, against a non-zero entry value
ExitOf(xq) ==
  /\ probe.input.exitQuantity = Some(xq)
  /\ probe.input.exitPrice # None
  /\ probe.input.exitDate # None
  /\ probe.input.entryPrice > 0

\* realized P/L of closing xq units bought at p and sold at x
ClosedPortionPL(ty, xq, p, x) ==
  IF ty = "LONG" THEN xq * x - xq * p ELSE xq * p - xq * x

\* C1: a fully closed trade (exit quantity = entry quantity) has realized
\* q*x - q*p when LONG, q*p - q*x when SHORT, and percentage
\* 100 * realized / (q*p), by the route helper and by the save hook
C1_FullCloseRealized ==
  (Computed /\ ExitOf(probe.input.entryQuantity)) =>
    LET t == probe.input
        q == t.entryQuantity
        r == ClosedPortionPL(t.type, q, t.entryPrice, t.exitPrice[1])
    IN  /\ probe.equity.profitLoss.realized = r
        /\ probe.helper.realized = r
        /\ probe.equity.profitLoss.percentage = Ratio(100 * r, q * t.entryPrice)
        /\ probe.helper.percentage = Ratio(100 * r, q * t.entryPrice)

\* C2: a LONG trade with 0 < exitQuantity < entryQuantity has realized
\* exitQuantity*exitPrice - exitQuantity*entryPrice and percentage
\* 100 * realized / (exitQuantity*entryPrice)
C2_PartialCloseRealized ==
  (/\ Computed
   /\ probe.input.type = "LONG"
   /\ probe.input.exitQuantity # None
   /\ ExitOf(probe.input.exitQuantity[1])
   /\ probe.input.exitPrice[1] > 0
   /\ 0 < probe.input.exitQuantity[1]
   /\ probe.input.exitQuantity[1] < probe.input.entryQuantity) =>
    LET t == probe.input
        xq == t.exitQuantity[1]
        r == ClosedPortionPL("LONG", xq, t.entryPrice, t.exitPrice[1])
    IN  /\ probe.equity.profitLoss.realized = r
        /\ probe.helper.realized = r
        /\ probe.equity.profitLoss.percentage = Ratio(100 * r, xq * t.entryPrice)

\* C8: for the same direction, prices and quantity, the realized P/L of the
\* option trade is exactly 100 times that of the fully closed equity trade
C8_OptionMultiplier ==
  (Computed /\ probe.input.exitQuantity = Some(probe.input.entryQuantity)) =>
    /\ probe.option.status = probe.equity.status
    /\ probe.option.profitLoss.realized =
         100 * probe.equity.profitLoss.realized

C8_Witness ==
  /\ Computed
  /\ probe.input.exitQuantity = Some(probe.input.entryQuantity)
  /\ probe.option.status = "CLOSED"
  /\ probe.equity.status = "CLOSED"
  /\ probe.equity.profitLoss.realized = 200
  /\ probe.option.profitLoss.realized = 20000

\* C9: recomputing is idempotent and depends only on the entry/exit fields:
\* a second computation yields the status and profitLoss of the first, and
\* the first yields what it yields for a document with default status and
\* profitLoss
C9_Idempotent ==
  Computed =>
    /\ Derived(probe.equity) = probe.first.equity
    /\ probe.helper = probe.first.helper
    /\ probe.first.equity =
         Derived(SaveTrade(ResetDerived(probe.input), FALSE).doc)
    /\ probe.first.helper = calculateProfitLoss(ResetDerived(probe.input))

C9_Witness ==
  /\ probe.n = 2
  /\ probe.input.status = "CLOSED"
  /\ probe.input.profitLoss.realized = 999
  /\ probe.equity.status = "OPEN"
  /\ probe.equity.profitLoss = ZeroPL
  /\ probe.helper.status = "OPEN"

\* C10: with an entry value of zero and an exit present, the route helper,
\* the equity save hook and the option save hook each report an error
C10_ZeroEntryValueError ==
  (/\ Computed
   /\ probe.input.entryPrice = 0
   /\ Truthy(probe.input.exitPrice)
   /\ Truthy(probe.input.exitQuantity)
   /\ probe.input.exitDate # None) =>
    /\ probe.helper.err
    /\ probe.equityErr # "none"
    /\ probe.optionErr # "none"

----------------------------------------------------------------------------
(* Properties of the stored trades (Spec, SpecOption) *)

StoredTrades == {trades[i][1] : i \in {j \in TradeIds : trades[j] # NoDoc}}

StoredOptionTrades ==
  {optionTrades[i][1] : i \in {j \in TradeIds : optionTrades[j] # NoDoc}}

\* exit quantity of a stored trade, 0 when it has none
ExitQty(t) == IF t.exitQuantity = None THEN 0 ELSE t.exitQuantity[1]

\* the exit of a stored trade is absent, or recorded with a non-zero price,
\* a non-zero quantity and a date, against a non-zero entry price
PlainExit(t) ==
  /\ t.entryPrice > 0
  /\ \/ t.exitPrice = None /\ t.exitQuantity = None /\ t.exitDate = None
     \/ Truthy(t.exitPrice) /\ Truthy(t.exitQuantity) /\ t.exitDate # None

\* C3: every stored trade is CLOSED iff exit quantity = entry quantity,
\* PARTIALLY_CLOSED iff 0 < exit quantity < entry quantity, OPEN iff exit
\* quantity = 0
C3_StatusByQuantity ==
  \A t \in {u \in StoredTrades : PlainExit(u)} :
    /\ t.status = "CLOSED" <=> ExitQty(t) = t.entryQuantity
    /\ t.status = "PARTIALLY_CLOSED" <=>
         (0 < ExitQty(t) /\ ExitQty(t) < t.entryQuantity)
    /\ t.status = "OPEN" <=> ExitQty(t) = 0

\* C4: every stored trade has exit quantity <= entry quantity
C4_ExitWithinEntry ==
  \A t \in {u \in StoredTrades : PlainExit(u)} :
    ExitQty(t) <= t.entryQuantity

\* C5: every stored trade's status and profitLoss are the values recomputed
\* from its stored entry/exit fields (by the save hook or by the route
\* helper), never a value the caller supplied
C5_DerivedNeverSupplied ==
  \A t \in StoredTrades :
    \/ Derived(t) = Derived(PnLHook(t))
    \/ LET pl == calculateProfitLoss(t)
       IN  /\ ~pl.err
           /\ t.status = pl.status
           /\ t.profitLoss = [realized |-> pl.realized,
                              percentage |-> pl.percentage]

\* C6: an accepted update that removes the exit of a CLOSED trade leaves the
\* stored trade OPEN with profitLoss all zero, for equity and option trades
C6_ReopenResets ==
  /\ (/\ last.op = "update" /\ last.code = 200
      /\ last.wasClosed /\ last.noExit) =>
       \A t \in StoredTrades :
         t.status = "OPEN" /\ t.profitLoss = ZeroPL
  /\ (/\ last.op = "optionUpdate" /\ last.code = 200
      /\ last.wasClosed /\ last.noExit) =>
       \A o \in {u \in StoredOptionTrades : u.entryPrice > 0} :
         o.status = "OPEN" /\ o.profitLoss = ZeroOptionPL

\* a DAY trade payload with its required fields, all values within range
SavedAsDayTrade ==
  /\ last.op = "create"
  /\ last.body.tradeType = "DAY"
  /\ last.body.entryPrice > 0
  /\ last.body.entryQuantity >= 1
  /\ (last.body.exitPrice # None => last.body.exitPrice[1] >= 0)
  /\ (last.body.exitQuantity # None => last.body.exitQuantity[1] >= 0)

\* C7 as stated: the save of a DAY trade is rejected with the day-trade
\* error exactly when the exit is more than 24 hours after the entry
C7_RejectedIffExitLate ==
  SavedAsDayTrade =>
    (last.err = "DayTradeError" <=>
       (/\ last.body.exitDate # None
        /\ last.body.exitDate[1] - last.body.entryDate > DayLimit))

\* C7 amended: the save of a DAY trade is rejected with the day-trade error
\* exactly when exit and entry are more than 24 hours apart, whichever comes
\* first; it is accepted otherwise, and nothing is stored on rejection
C7_RejectedIffApart ==
  SavedAsDayTrade =>
    /\ last.err = "DayTradeError" <=>
         (/\ last.body.exitDate # None
          /\ Abs(last.body.exitDate[1] - last.body.entryDate) > DayLimit)
    /\ last.err \in {"none", "DayTradeError"}
    /\ last.err = "DayTradeError" => StoredTrades = {}
    /\ last.err = "none" => StoredTrades # {}

\* an exit 24h00m01s after the entry is rejected
C7_Witness ==
  /\ SavedAsDayTrade
  /\ last.body.exitDate = Some(last.body.entryDate + DayLimit + 1)
  /\ last.err = "DayTradeError"
  /\ last.code = 400
  /\ StoredTrades = {}

\* the request just answered was a create or an update refused by a
\* validation: required fields, zero entry value, a schema range or enum,
\* or the day-trade window
RejectedByValidation(reply) ==
  /\ reply.op \in {"create", "update"}
  /\ reply.code = 400
  /\ reply.err \in {"MissingFields", "ZeroEntryValue", "ValidationError",
                    "DayTradeError"}

\* C11: a create or update request rejected by validation leaves the set of
\* stored trades and every stored trade's fields, status and profitLoss
\* exactly as they were before the request
C11_RejectionKeepsStore ==
  [][RejectedByValidation(last') => trades' = trades]_vars

\* an update of a stored CLOSED trade refused for a value out of range, and
\* the trade still there
C11_Witness ==
  /\ last.op = "update"
  /\ last.code = 400
  /\ last.err = "ValidationError"
  /\ last.wasClosed
  /\ \E t \in StoredTrades : t.status = "CLOSED" /\ t.exitPrice = Some(12)

----------------------------------------------------------------------------
(* The journal read by the analytics.  In the specifications below the   *)
(* two collections are sequences of documents in insertion order.        *)

\* trades and option trades the journal holds at most
MaxTrades == 3

\* exit instants: two calendar days after the entry day, two instants each
ExitTimes ==
  { EntryDate + d * DayLimit + h * 3600 : d \in {1, 2}, h \in {1, 2} }

\* Mongoose timestamps: createdAt of the documents
CreatedAt == EntryDate

\* a SWING trade of one unit bought at 10, open or sold at 7, 10 or 20
JournalBodies ==
  { TradeBody("LONG", "SWING", 10, 1, None, None, None, None) }
  \cup
  { TradeBody("LONG", "SWING", 10, 1, Some(x), Some(1), Some(xd), None) :
      x \in {7, 10, 20}, xd \in ExitTimes }

\* an option trade of one contract bought at 10, open or sold at 7, 10 or 20
OptionJournalBodies ==
  { OptionBody("LONG", 1, 10, None, None, None) }
  \cup
  { OptionBody("LONG", 1, 10, Some(x), LateExit, None) : x \in {7, 10, 20} }

JournalSize == Len(trades) + Len(optionTrades)

\* no stored trade has the exit instant of the payload, so that
\* sort({ exitDate: 1 }) has one outcome
FreshExit(body) ==
  \A i \in DOMAIN trades : trades[i].exitDate # body.exitDate \/ body.exitDate = None

\* POST /: Trade.create of a valid payload for the user
InsertTrade(user, createdAt, body) ==
  /\ LET saved == SaveTrade(NewTrade(body), FALSE)
     IN  /\ saved.err = "none"
         /\ trades' = Append(trades, [user |-> user, createdAt |-> createdAt]
                                       @@ saved.doc)
  /\ last' = Reply("create", 201, "none")
  /\ UNCHANGED <<optionTrades, probe, users, inflight, settings>>

\* POST /api/option-trades: OptionTrade.create of a valid payload
InsertOptionTrade(user, createdAt, body) ==
  /\ LET saved == SaveOptionTrade(NewOptionTrade(body))
     IN  /\ saved.err = "none"
         /\ optionTrades' =
              Append(optionTrades, [user |-> user, createdAt |-> createdAt]
                                     @@ saved.doc)
  /\ last' = Reply("optionCreate", 201, "none")
  /\ UNCHANGED <<trades, probe, users, inflight, settings>>

\* Model.find({ user, status: "CLOSED" })
FindClosed(collection, user) ==
  SelectSeq(collection, LAMBDA t : t.user = user /\ t.status = "CLOSED")

\* .sort({ exitDate: 1 }): ascending by exit instant, documents with the
\* same instant in collection order
SortByExitDate(docs) ==
  LET Before(i, j) ==
        \/ docs[i].exitDate[1] < docs[j].exitDate[1]
        \/ docs[i].exitDate[1] = docs[j].exitDate[1] /\ i < j
      Rank(j) == Cardinality({i \in DOMAIN docs : Before(i, j)}) + 1
  IN  [k \in DOMAIN docs |-> docs[CHOOSE j \in DOMAIN docs : Rank(j) = k]]

\* res.json({ success: true, data })
Data(op, data) ==
  [op |-> op, code |-> 200, err |-> "none", data |-> data]

----------------------------------------------------------------------------
(* Statistics *)

\* the forEach callback that counts break-even trades as profitable
TallyTradeFromZero(acc, trade) ==
  LET pl == trade.profitLoss.realized
  IN  [profitableTrades |-> acc.profitableTrades + (IF pl >= 0 THEN 1 ELSE 0),
       totalProfit |-> acc.totalProfit + pl,
       totalWinAmount |-> acc.totalWinAmount + (IF pl > 0 THEN pl ELSE 0),
       totalLossAmount |-> acc.totalLossAmount + (IF pl < 0 THEN Abs(pl) ELSE 0)]

\* the forEach callback of the statistics: one closed trade added to the
\* running counts and sums
TallyTrade(acc, trade) ==
  LET pl == trade.profitLoss.realized
  IN  [profitableTrades |-> acc.profitableTrades + (IF pl > 0 THEN 1 ELSE 0),
       totalProfit |-> acc.totalProfit + pl,
       totalWinAmount |-> acc.totalWinAmount + (IF pl > 0 THEN pl ELSE 0),
       totalLossAmount |-> acc.totalLossAmount + (IF pl < 0 THEN Abs(pl) ELSE 0)]

\* trades.forEach of the statistics: the callback applied from first to last
RECURSIVE TallyTrades(_, _)
TallyTrades(acc, docs) ==
  IF docs = <<>> THEN acc
  ELSE TallyTrades(TallyTrade(acc, Head(docs)), Tail(docs))

\* the ratio without the guard for no losing trade
WinLossRatioUnguarded(profitableTrades, losingTrades) ==
  Ratio(profitableTrades, losingTrades)

\* losingTrades > 0 ? profitableTrades / losingTrades : profitableTrades
WinLossRatio(profitableTrades, losingTrades) ==
  IF losingTrades > 0 THEN Ratio(profitableTrades, losingTrades)
  ELSE Ratio(profitableTrades, 1)

\* the data of both statistics routes for the closed trades found
StatsData(stockTrades, closedOptionTrades) ==
  LET totalTrades == Len(stockTrades) + Len(closedOptionTrades)
      zero == [profitableTrades |-> 0, totalProfit |-> 0,
               totalWinAmount |-> 0, totalLossAmount |-> 0]
      sums == TallyTrades(TallyTrades(zero, stockTrades), closedOptionTrades)
      losingTrades == totalTrades - sums.profitableTrades
  IN  [totalTrades |-> totalTrades,
       profitableTrades |-> sums.profitableTrades,
       losingTrades |-> losingTrades,
       totalProfit |-> sums.totalProfit,
       totalWinAmount |-> sums.totalWinAmount,
       totalLossAmount |-> sums.totalLossAmount,
       winRate |-> IF totalTrades > 0
                   THEN Ratio(100 * sums.profitableTrades, totalTrades)
                   ELSE Zero,
       winLossRatio |-> WinLossRatio(sums.profitableTrades, losingTrades)]

\* GET /api/trades/stats: closed equity and option trades of the caller
GetStats(user) ==
  /\ last' = Data("stats", StatsData(FindClosed(trades, user),
                                     FindClosed(optionTrades, user)))
  /\ UNCHANGED <<trades, optionTrades, probe, users, inflight, settings>>

\* GET /api/option-trades/stats: closed option trades of the caller
GetOptionStats(user) ==
  /\ last' = Data("optionStats", StatsData(<<>>, FindClosed(optionTrades, user)))
  /\ UNCHANGED <<trades, optionTrades, probe, users, inflight, settings>>

----------------------------------------------------------------------------
(* Drawdown and streaks *)

\* new Date(exitDate).toDateString(): the calendar day of an instant
DayOf(date) == date \div DayLimit

\* the drawdown callback that keeps the latest drawdown, not the largest
DrawdownStepLatest(acc, trade) ==
  LET pl == trade.profitLoss.realized
      equity == acc.equity + pl
      peakEquity == IF equity > acc.peakEquity THEN equity ELSE acc.peakEquity
      currentDrawdown == peakEquity - equity
      currentLossStreak == IF pl < 0 THEN acc.currentLossStreak + 1 ELSE 0
  IN  [maxDrawdown |-> currentDrawdown,
       currentDrawdown |-> currentDrawdown,
       maxConsecutiveLosses |->
         IF currentLossStreak > acc.maxConsecutiveLosses
         THEN currentLossStreak ELSE acc.maxConsecutiveLosses,
       currentLossStreak |-> currentLossStreak,
       biggestLoss |-> IF pl < 0 /\ pl < acc.biggestLoss THEN pl
                       ELSE acc.biggestLoss,
       equity |-> equity,
       peakEquity |-> peakEquity]

\* the forEach callback of the drawdown analysis: one closed trade added to
\* the equity curve
DrawdownStep(acc, trade) ==
  LET pl == trade.profitLoss.realized
      equity == acc.equity + pl
      peakEquity == IF equity > acc.peakEquity THEN equity ELSE acc.peakEquity
      currentDrawdown == peakEquity - equity
      currentLossStreak == IF pl < 0 THEN acc.currentLossStreak + 1 ELSE 0
  IN  [maxDrawdown |-> IF currentDrawdown > acc.maxDrawdown
                       THEN currentDrawdown ELSE acc.maxDrawdown,
       currentDrawdown |-> currentDrawdown,
       maxConsecutiveLosses |->
         IF currentLossStreak > acc.maxConsecutiveLosses
         THEN currentLossStreak ELSE acc.maxConsecutiveLosses,
       currentLossStreak |-> currentLossStreak,
       biggestLoss |-> IF pl < 0 /\ pl < acc.biggestLoss THEN pl
                       ELSE acc.biggestLoss,
       equity |-> equity,
       peakEquity |-> peakEquity]

\* trades.forEach of the drawdown analysis
RECURSIVE DrawdownLoop(_, _)
DrawdownLoop(acc, docs) ==
  IF docs = <<>> THEN acc
  ELSE DrawdownLoop(DrawdownStep(acc, Head(docs)), Tail(docs))

\* the data of the drawdown analysis for closed trades in exit order
DrawdownData(sorted) ==
  LET zero == [maxDrawdown |-> 0, currentDrawdown |-> 0,
               maxConsecutiveLosses |-> 0, currentLossStreak |-> 0,
               biggestLoss |-> 0, equity |-> 0, peakEquity |-> 0]
      end == DrawdownLoop(zero, sorted)
  IN  [maxDrawdown |-> end.maxDrawdown,
       maxConsecutiveLosses |-> end.maxConsecutiveLosses,
       biggestLoss |-> end.biggestLoss,
       currentDrawdown |-> IF end.equity < end.peakEquity
                           THEN end.peakEquity - end.equity ELSE 0,
       peakEquity |-> end.peakEquity,
       currentEquity |-> end.equity]

\* GET /analysis/drawdown
GetDrawdown(user) ==
  /\ last' = Data("drawdown",
                  DrawdownData(SortByExitDate(FindClosed(trades, user))))
  /\ UNCHANGED <<trades, optionTrades, probe, users, inflight, settings>>

\* the forEach callback of GET /analysis/streak: the day before is judged
\* when a trade of a new exit day arrives
StreakStep(acc, trade) ==
  LET tradeDate == Some(DayOf(trade.exitDate[1]))
      pl == trade.profitLoss.realized
  IN  IF tradeDate # acc.previousDate
      THEN LET currentStreak == IF acc.dailyPL > 0 THEN acc.currentStreak + 1
                                ELSE 0
           IN  [currentStreak |-> currentStreak,
                maxStreak |-> IF acc.dailyPL > 0 /\ currentStreak > acc.maxStreak
                              THEN currentStreak ELSE acc.maxStreak,
                previousDate |-> tradeDate,
                dailyPL |-> pl]
      ELSE [acc EXCEPT !.dailyPL = @ + pl]

\* trades.forEach of GET /analysis/streak
RECURSIVE StreakLoop(_, _)
StreakLoop(acc, docs) ==
  IF docs = <<>> THEN acc
  ELSE StreakLoop(StreakStep(acc, Head(docs)), Tail(docs))

\* the data of GET /analysis/streak for closed trades in exit order
StreakData(sorted) ==
  LET zero == [currentStreak |-> 0, maxStreak |-> 0,
               previousDate |-> None, dailyPL |-> 0]
      end == StreakLoop(zero, sorted)
  IN  [currentStreak |-> end.currentStreak, maxStreak |-> end.maxStreak]

\* GET /analysis/streak
GetStreak(user) ==
  /\ last' = Data("streak", StreakData(SortByExitDate(FindClosed(trades, user))))
  /\ UNCHANGED <<trades, optionTrades, probe, users, inflight, settings>>

\* x.toFixed(1): round to one decimal, ties away from zero
ToFixed1(r) ==
  IF r.d = 0 THEN r
  ELSE Ratio(Sign(r.n) * ((2 * 10 * Abs(r.n) + r.d) \div (2 * r.d)), 10)

\* the reduce callback of GET /analysis/streaks; acc.result is the object
\* the callback returns
StreaksStep(acc, trade) ==
  LET tradeDate == Some(DayOf(trade.exitDate[1]))
      pl == trade.profitLoss.realized
      newDay == tradeDate # acc.previousDate
      currentStreak == IF newDay /\ acc.dailyPL > 0 THEN acc.currentStreak + 1
                       ELSE IF newDay /\ acc.dailyPL < 0 THEN 0
                       ELSE acc.currentStreak
      longestStreak == IF newDay /\ acc.dailyPL > 0
                          /\ currentStreak > acc.longestStreak
                       THEN currentStreak ELSE acc.longestStreak
      streakCount == IF newDay /\ acc.dailyPL > 0 THEN acc.streakCount + 1
                     ELSE acc.streakCount
      totalStreaks == IF newDay /\ currentStreak > 0 THEN acc.totalStreaks + 1
                      ELSE acc.totalStreaks
  IN  [currentStreak |-> currentStreak,
       longestStreak |-> longestStreak,
       totalStreaks |-> totalStreaks,
       streakCount |-> streakCount,
       previousDate |-> IF newDay THEN tradeDate ELSE acc.previousDate,
       dailyPL |-> IF newDay THEN pl ELSE acc.dailyPL + pl,
       result |-> [currentStreak |-> currentStreak,
                   longestStreak |-> longestStreak,
                   averageStreak |->
                     IF totalStreaks # 0
                     THEN ToFixed1(Ratio(totalStreaks, streakCount))
                     ELSE Zero]]

\* trades.reduce of GET /analysis/streaks
RECURSIVE StreaksReduce(_, _)
StreaksReduce(acc, docs) ==
  IF docs = <<>> THEN acc
  ELSE StreaksReduce(StreaksStep(acc, Head(docs)), Tail(docs))

\* the object with no key: the initial value of the reduce
EmptyObject == [key \in {} |-> 0]

\* the data of GET /analysis/streaks for closed trades in exit order: what
\* the last call of the callback returned, the initial {} when there is none
StreaksData(sorted) ==
  LET zero == [currentStreak |-> 0, longestStreak |-> 0, totalStreaks |-> 0,
               streakCount |-> 0, previousDate |-> None, dailyPL |-> 0,
               result |-> EmptyObject]
  IN  StreaksReduce(zero, sorted).result

\* GET /analysis/streaks
GetStreaks(user) ==
  /\ last' = Data("streaks",
                  StreaksData(SortByExitDate(FindClosed(trades, user))))
  /\ UNCHANGED <<trades, optionTrades, probe, users, inflight, settings>>

----------------------------------------------------------------------------
(* Specification of the analytics of one user *)

InitStats ==
  /\ trades = <<>>
  /\ optionTrades = <<>>
  /\ last = Reply("none", 0, "none")
  /\ probe = ProbeIdle
  /\ users = <<Requester>>
  /\ inflight = <<>>
  /\ settings = NoSettings

NextStats ==
  \/ /\ JournalSize < MaxTrades
     /\ \E body \in JournalBodies :
          FreshExit(body) /\ InsertTrade(Requester, CreatedAt, body)
  \/ /\ JournalSize < MaxTrades
     /\ \E body \in OptionJournalBodies :
          InsertOptionTrade(Requester, CreatedAt, body)
  \/ GetStats(Requester)
  \/ GetOptionStats(Requester)
  \/ GetDrawdown(Requester)
  \/ GetStreak(Requester)
  \/ GetStreaks(Requester)

SpecStats == InitStats /\ [][NextStats]_vars

----------------------------------------------------------------------------
(* Specification of the streak analyses over several exit days *)

MaxExitDays == 4

MaxStreakTrades == 4

\* a SWING trade of one unit bought at 10 and sold at 7, 10 or 20, one exit
\* instant per calendar day
StreakBodies ==
  { TradeBody("LONG", "SWING", 10, 1, Some(x), Some(1),
              Some(EntryDate + d * DayLimit + 3600), None) :
      x \in {7, 10, 20}, d \in 1..MaxExitDays }

NextStreak ==
  \/ /\ Len(trades) < MaxStreakTrades
     /\ \E body \in StreakBodies :
          FreshExit(body) /\ InsertTrade(Requester, CreatedAt, body)
  \/ GetStreak(Requester)
  \/ GetStreaks(Requester)

SpecStreak == InitStats /\ [][NextStreak]_vars

----------------------------------------------------------------------------
(* Properties of the analytics of one user (SpecStats) *)

\* the caller's CLOSED documents of a collection, as a set of positions
ClosedAt(collection) ==
  {i \in DOMAIN collection :
     collection[i].user = Requester /\ collection[i].status = "CLOSED"}

\* how many of them have a realized P/L > 0, and how many <= 0
Winners(collection) ==
  Cardinality({i \in ClosedAt(collection) :
                 collection[i].profitLoss.realized > 0})

Losers(collection) ==
  Cardinality({i \in ClosedAt(collection) :
                 collection[i].profitLoss.realized <= 0})

\* C12: both statistics routes report winLossRatio = winningTrades /
\* losingTrades when losingTrades > 0 and winLossRatio = winningTrades when
\* losingTrades = 0, a finite number in either case
C12_WinLossRatio ==
  last.op \in {"stats", "optionStats"} =>
    LET w == last.data.profitableTrades
        l == last.data.losingTrades
    IN  /\ last.code = 200
        /\ Finite(last.data.winLossRatio)
        /\ l > 0 => last.data.winLossRatio = Ratio(w, l)
        /\ l = 0 => last.data.winLossRatio = Ratio(w, 1)

\* three wins and no loss give a ratio of 3
C12_Witness ==
  /\ last.op = "stats"
  /\ Winners(trades) + Winners(optionTrades) = 3
  /\ last.data.profitableTrades = 3
  /\ last.data.losingTrades = 0
  /\ last.data.winLossRatio = Ratio(3, 1)

\* C13: the statistics count a closed trade as winning iff its realized P/L
\* is > 0 and as losing iff it is <= 0 (break-even is losing), so that
\* winning + losing = total, and winRate = 100 * winning / total
C13_WinningAndLosing ==
  last.op = "stats" =>
    LET w == Winners(trades) + Winners(optionTrades)
        l == Losers(trades) + Losers(optionTrades)
        total == Cardinality(ClosedAt(trades))
                   + Cardinality(ClosedAt(optionTrades))
    IN  /\ last.data.profitableTrades = w
        /\ last.data.losingTrades = l
        /\ last.data.totalTrades = total
        /\ last.data.profitableTrades + last.data.losingTrades
             = last.data.totalTrades
        /\ total > 0 => last.data.winRate = Ratio(100 * w, total)

\* one winning and one break-even trade: one loser, win rate 50
C13_Witness ==
  /\ last.op = "stats"
  /\ \E i \in ClosedAt(trades) : trades[i].profitLoss.realized = 0
  /\ \A i \in ClosedAt(trades) : trades[i].profitLoss.realized >= 0
  /\ ClosedAt(optionTrades) = {}
  /\ last.data.totalTrades = 2
  /\ last.data.profitableTrades = 1
  /\ last.data.losingTrades = 1
  /\ last.data.winRate = Ratio(50, 1)

\* the numeric fields each analytics result has
ResultFields(op) ==
  IF op \in {"stats", "optionStats"}
  THEN {"totalTrades", "profitableTrades", "losingTrades", "totalProfit",
        "totalWinAmount", "totalLossAmount", "winRate", "winLossRatio"}
  ELSE IF op = "drawdown"
  THEN {"maxDrawdown", "maxConsecutiveLosses", "biggestLoss",
        "currentDrawdown", "peakEquity", "currentEquity"}
  ELSE IF op = "streak"
  THEN {"currentStreak", "maxStreak"}
  ELSE {"currentStreak", "longestStreak", "averageStreak"}

\* the fields that hold a quotient
QuotientFields == {"winRate", "winLossRatio", "averageStreak"}

\* C14: for a user with zero closed trades the statistics, drawdown and
\* streak computations succeed and return a result in which every numeric
\* field is present and equal to 0
C14_ZeroResultsOnEmpty ==
  (/\ last.op \in {"stats", "optionStats", "drawdown", "streak", "streaks"}
   /\ ClosedAt(trades) = {}
   /\ ClosedAt(optionTrades) = {}) =>
    /\ last.code = 200
    /\ DOMAIN last.data = ResultFields(last.op)
    /\ \A field \in DOMAIN last.data :
         IF field \in QuotientFields THEN last.data[field] = Zero
         ELSE last.data[field] = 0

\* the closed trades the drawdown and streak analyses read, in exit order
ClosedByExit(collection) == SortByExitDate(FindClosed(collection, Requester))

\* the step stores a closed trade that exits after every closed trade
\* stored before
AppendsLatestExit ==
  LET before == ClosedByExit(trades)
      after == ClosedByExit(trades')
  IN  /\ Len(after) = Len(before) + 1
      /\ SubSeq(after, 1, Len(before)) = before

\* C15: appending a trade at the end of the exit-ordered sequence of closed
\* trades never lowers maxDrawdown
C15_DrawdownMonotone ==
  [][AppendsLatestExit =>
       DrawdownData(ClosedByExit(trades')).maxDrawdown
         >= DrawdownData(ClosedByExit(trades)).maxDrawdown]_vars

\* a drawdown report over trades stored in exit order, larger than the
\* drawdown of the sequence without its last trade
C15_Witness ==
  /\ last.op = "drawdown"
  /\ Len(ClosedByExit(trades)) = 3
  /\ ClosedByExit(trades) = FindClosed(trades, Requester)
  /\ LET sorted == ClosedByExit(trades)
         shorter == SubSeq(sorted, 1, Len(sorted) - 1)
     IN  /\ DrawdownData(shorter).maxDrawdown = 3
         /\ last.data.maxDrawdown = 6

\* the sequences obtained from closed trades in exit order by letting
\* trades that exit on the same calendar day swap their exit instants
SameDayReorderings(sorted) ==
  LET n == Len(sorted)
      Swaps == {p \in [1..n -> 1..n] :
                  /\ \A i, j \in 1..n : p[i] = p[j] => i = j
                  /\ \A i \in 1..n : DayOf(sorted[p[i]].exitDate[1])
                                       = DayOf(sorted[i].exitDate[1])}
  IN  {[i \in 1..n |-> [sorted[p[i]] EXCEPT !.exitDate = sorted[i].exitDate]] :
         p \in Swaps}

\* C16: the drawdown depends on the trades only through their per-exit-day
\* sums: reordering the trades that exit on the same calendar day leaves
\* maxDrawdown unchanged
C16_SameDayOrderIrrelevant ==
  last.op = "drawdown" =>
    \A reordered \in SameDayReorderings(ClosedByExit(trades)) :
      DrawdownData(reordered).maxDrawdown = last.data.maxDrawdown

\* the exit days of closed trades in exit order, ascending
ExitDays(sorted) == {DayOf(sorted[i].exitDate[1]) : i \in DOMAIN sorted}

\* summed realized P/L of the trades that exit on the day
RECURSIVE DailyPL(_, _)
DailyPL(sorted, day) ==
  IF sorted = <<>> THEN 0
  ELSE (IF DayOf(Head(sorted).exitDate[1]) = day
        THEN Head(sorted).profitLoss.realized ELSE 0)
       + DailyPL(Tail(sorted), day)

\* length of the longest run of consecutive exit days with a positive sum
LongestWinningRun(sorted) ==
  LET days == ExitDays(sorted)
      Run(from, to) ==
        {d \in days : from <= d /\ d <= to}
      Winning(from, to) ==
        \A d \in Run(from, to) : DailyPL(sorted, d) > 0
      runs == {r \in days \X days : r[1] <= r[2] /\ Winning(r[1], r[2])}
      lengths == {Cardinality(Run(r[1], r[2])) : r \in runs}
  IN  IF lengths = {} THEN 0
      ELSE CHOOSE m \in lengths : \A k \in lengths : k <= m

\* C17: the reported longest win streak is the length of the longest run of
\* consecutive exit days whose summed realized P/L is positive, the last
\* exit day included
C17_LongestWinStreak ==
  /\ last.op = "streak" =>
       last.data.maxStreak = LongestWinningRun(ClosedByExit(trades))
  /\ (last.op = "streaks" /\ ClosedByExit(trades) # <<>>) =>
       last.data.longestStreak = LongestWinningRun(ClosedByExit(trades))

----------------------------------------------------------------------------
(* Leaderboard *)

\* registered users at most
MaxUsers == 2

\* trades and option trades of all users at most
MaxBoardTrades == 2

\* new Date() when the leaderboard is requested
Now == EntryDate + 10 * DayLimit + 3600

\* req.query.timeFrame
TimeFrames == {"all", "today", "week"}

\* createdAt of a trade logged eight days, or one day, before the request
CreatedAts == {Now - 8 * DayLimit, Now - DayLimit}

\* trades of one unit bought at 10: open, sold at 7, sold at 20
BoardBodies ==
  { TradeBody("LONG", "SWING", 10, 1, None, None, None, None) }
  \cup
  { TradeBody("LONG", "SWING", 10, 1, Some(x), Some(1), LateExit, None) :
      x \in {7, 20} }

\* an option trade of one contract bought at 10 and sold at 20
OptionBoardBodies == { OptionBody("LONG", 1, 10, Some(20), LateExit, None) }

\* POST /register: User.create for a user not yet registered
RegisterUser(user) ==
  /\ \A i \in DOMAIN users : users[i] # user
  /\ users' = Append(users, user)
  /\ last' = Reply("register", 201, "none")
  /\ UNCHANGED <<trades, optionTrades, probe, inflight, settings>>

\* the start of the time frame: none for "all" and for an unknown value
StartDate(timeFrame) ==
  IF timeFrame = "today" THEN Some(DayOf(Now) * DayLimit)
  ELSE IF timeFrame = "week" THEN Some(Now - 7 * DayLimit)
  ELSE None

\* $match: { user: trader._id, ...dateFilter }
MatchTrades(trader, startDate) ==
  SelectSeq(trades, LAMBDA t :
    /\ t.user = trader
    /\ (startDate # None => t.createdAt >= startDate[1]))

\* $group: one matched trade added to the sums
GroupTrade(acc, trade) ==
  [totalTrades |-> acc.totalTrades + 1,
   winningTrades |-> acc.winningTrades
                       + (IF trade.profitLoss.realized > 0 THEN 1 ELSE 0),
   totalProfit |-> acc.totalProfit + trade.profitLoss.realized]

\* $group over the matched trades
RECURSIVE GroupTrades(_, _)
GroupTrades(acc, docs) ==
  IF docs = <<>> THEN acc
  ELSE GroupTrades(GroupTrade(acc, Head(docs)), Tail(docs))

\* the leaderboard entry of one user
TraderWithStats(trader, startDate) ==
  LET zero == [totalTrades |-> 0, winningTrades |-> 0, totalProfit |-> 0]
      traderStats == GroupTrades(zero, MatchTrades(trader, startDate))
  IN  [user |-> trader,
       stats |-> [totalTrades |-> traderStats.totalTrades,
                  winningTrades |-> traderStats.winningTrades,
                  totalProfit |-> traderStats.totalProfit,
                  winRate |-> IF traderStats.totalTrades # 0
                              THEN ToFixed1(Ratio(100 * traderStats.winningTrades,
                                                  traderStats.totalTrades))
                              ELSE Zero]]

\* the leaderboard built from the users who have a matching trade only
LeaderboardDataOfTraders(timeFrame) ==
  LET traders == SelectSeq(users, LAMBDA u :
                   MatchTrades(u, StartDate(timeFrame)) # <<>>)
  IN  [i \in DOMAIN traders |->
         TraderWithStats(traders[i], StartDate(timeFrame))]

\* traders.map over User.find(): one entry per user, in the order found
LeaderboardData(timeFrame) ==
  [i \in DOMAIN users |-> TraderWithStats(users[i], StartDate(timeFrame))]

\* GET /leaderboard
GetLeaderboard(timeFrame) ==
  /\ last' = [op |-> "leaderboard", code |-> 200, err |-> "none",
              timeFrame |-> timeFrame, data |-> LeaderboardData(timeFrame)]
  /\ UNCHANGED <<trades, optionTrades, probe, users, inflight, settings>>

NextBoard ==
  \/ \E user \in 1..MaxUsers : RegisterUser(user)
  \/ /\ JournalSize < MaxBoardTrades
     /\ \E i \in DOMAIN users, createdAt \in CreatedAts, body \in BoardBodies :
          InsertTrade(users[i], createdAt, body)
  \/ /\ JournalSize < MaxBoardTrades
     /\ \E i \in DOMAIN users, createdAt \in CreatedAts,
           body \in OptionBoardBodies :
          InsertOptionTrade(users[i], createdAt, body)
  \/ \E timeFrame \in TimeFrames : GetLeaderboard(timeFrame)

SpecBoard == InitStats /\ [][NextBoard]_vars

----------------------------------------------------------------------------
(* Properties of the leaderboard (SpecBoard) *)

\* the document was created inside the time frame of the last request
InWindow(doc) ==
  StartDate(last.timeFrame) = None
    \/ doc.createdAt >= StartDate(last.timeFrame)[1]

\* positions of the user's documents of a collection inside the window
InWindowAt(collection, user) ==
  {i \in DOMAIN collection :
     collection[i].user = user /\ InWindow(collection[i])}

\* C18: the leaderboard has exactly one entry per registered user, and a
\* user with no trade inside the window has totalTrades = 0,
\* totalProfit = 0 and winRate = 0
C18_EveryUserListed ==
  last.op = "leaderboard" =>
    /\ Len(last.data) = Len(users)
    /\ \A i \in DOMAIN users :
         \E j \in DOMAIN last.data :
           /\ last.data[j].user = users[i]
           /\ (InWindowAt(trades, users[i]) = {}
                 /\ InWindowAt(optionTrades, users[i]) = {}) =>
                /\ last.data[j].stats.totalTrades = 0
                /\ last.data[j].stats.totalProfit = 0
                /\ last.data[j].stats.winRate = Zero

\* two users, one with a trade inside the week, the other with a trade
\* logged before it: the second is listed with zeros
C18_Witness ==
  /\ last.op = "leaderboard"
  /\ last.timeFrame = "week"
  /\ Len(users) = 2
  /\ Len(last.data) = 2
  /\ \E i, j \in DOMAIN last.data :
       /\ last.data[i].stats.totalTrades = 1
       /\ last.data[j].stats.totalTrades = 0
       /\ last.data[j].stats.totalProfit = 0
       /\ last.data[j].stats.winRate = Zero
       /\ \E k \in DOMAIN trades :
            trades[k].user = last.data[j].user /\ ~InWindow(trades[k])

\* C19: the leaderboard is ordered by totalProfit descending: of two
\* adjacent entries the earlier has a totalProfit >= the later's
C19_SortedByProfit ==
  last.op = "leaderboard" =>
    \A i \in DOMAIN last.data :
      i < Len(last.data) =>
        last.data[i].stats.totalProfit >= last.data[i + 1].stats.totalProfit

\* positions of the user's CLOSED documents of a collection inside the window
ClosedInWindowAt(collection, user) ==
  {i \in InWindowAt(collection, user) : collection[i].status = "CLOSED"}

\* sum of the realized P/L of the documents at the positions
RECURSIVE RealizedAt(_, _)
RealizedAt(collection, positions) ==
  IF positions = {} THEN 0
  ELSE LET i == CHOOSE k \in positions : TRUE
       IN  collection[i].profitLoss.realized
             + RealizedAt(collection, positions \ {i})

\* C20: a user's totalTrades, winningTrades and totalProfit are computed
\* over the union of the user's CLOSED equity trades and CLOSED option
\* trades inside the window
C20_ClosedEquityAndOptions ==
  last.op = "leaderboard" =>
    \A j \in DOMAIN last.data :
      LET user == last.data[j].user
          equity == ClosedInWindowAt(trades, user)
          options == ClosedInWindowAt(optionTrades, user)
      IN  /\ last.data[j].stats.totalTrades
               = Cardinality(equity) + Cardinality(options)
          /\ last.data[j].stats.winningTrades
               = Cardinality({i \in equity :
                                trades[i].profitLoss.realized > 0})
                 + Cardinality({i \in options :
                                  optionTrades[i].profitLoss.realized > 0})
          /\ last.data[j].stats.totalProfit
               = RealizedAt(trades, equity) + RealizedAt(optionTrades, options)

----------------------------------------------------------------------------
(* Properties of the settings cache (SpecCache) *)

\* C30: a maintenance check that begins after a settings update was
\* acknowledged decides on settings at least as new as that update, whatever
\* getCachedSettings calls were in flight when the update ran.
C30_NoStaleSettings ==
  last.op = "maintenance" => last.decided.revision >= last.began

----------------------------------------------------------------------------
(* Properties of the stored equity trades, continued (Spec) *)

\* C22: whatever sequence of creates, updates and imports ran (none of them
\* can supply the override), no stored DAY trade has an exit time more than
\* 24 hours after its entry time
C22_DayWindowOnEveryPath ==
  \A t \in StoredTrades :
    (t.tradeType = "DAY" /\ t.exitDate # None) =>
      t.exitDate[1] - t.entryDate <= DayLimit

----------------------------------------------------------------------------
(* Properties of the P/L computations, continued (SpecCalc) *)

\* C25: the derived status follows the exit quantity and not the exit
\* price: a trade whose whole quantity is exited at price 0 is CLOSED with
\* realized -entryValue when LONG and +entryValue when SHORT, by the helper
\* and by both hooks, and a trade with a recorded exit is OPEN only when its
\* exit quantity is 0
C25_StatusByExitQuantity ==
  (/\ Computed
   /\ probe.input.entryPrice > 0
   /\ probe.input.exitPrice # None
   /\ probe.input.exitDate # None) =>
    LET t == probe.input
        entryValue == t.entryQuantity * t.entryPrice
        lost == IF t.type = "LONG" THEN -entryValue ELSE entryValue
    IN  /\ (t.exitPrice = Some(0) /\ t.exitQuantity = Some(t.entryQuantity)) =>
             /\ probe.equity.status = "CLOSED"
             /\ probe.equity.profitLoss.realized = lost
             /\ probe.helper.status = "CLOSED"
             /\ probe.helper.realized = lost
             /\ probe.option.status = "CLOSED"
             /\ probe.option.profitLoss.realized = 100 * lost
        /\ probe.equity.status = "OPEN" => ~Truthy(t.exitQuantity)

----------------------------------------------------------------------------
(* Properties of the stored option trades, continued (SpecOption) *)

\* C26: after any sequence of option-trade creates and updates, a stored
\* option trade with an exit (price and date) is CLOSED with realized
\* +/-(exitPrice - entryPrice) * contracts * 100, and one without an exit is
\* OPEN with profitLoss 0
C26_OptionUpdateRederives ==
  \A o \in {u \in StoredOptionTrades : u.entryPrice > 0} :
    /\ (Truthy(o.exitPrice) /\ Present(o.exitDate)) =>
         /\ o.status = "CLOSED"
         /\ o.profitLoss.realized =
              100 * ClosedPortionPL(o.type, o.contracts, o.entryPrice,
                                    o.exitPrice[1])
    /\ (o.exitPrice = None /\ o.exitDate = None) =>
         /\ o.status = "OPEN"
         /\ o.profitLoss = ZeroOptionPL

----------------------------------------------------------------------------
(* Properties of the create response (Spec) *)

\* C27: for every payload the create operation accepts, the status and
\* realized P/L of the create response (route helper) equal the status and
\* realized P/L stored for the trade (save hook), also when the payload has
\* an exit price and exit quantity but no exit date
C27_ResponseEqualsStored ==
  (last.op = "create" /\ last.code = 201) =>
    \A t \in StoredTrades :
      /\ t.status = last.pl.status
      /\ t.profitLoss.realized = last.pl.realized

----------------------------------------------------------------------------
(* Properties of the drawdown and streak analyses, continued *)

\* the running equity after the first k closed trades in exit order
RECURSIVE EquityAfter(_, _)
EquityAfter(sorted, k) ==
  IF k = 0 THEN 0
  ELSE EquityAfter(sorted, k - 1) + sorted[k].profitLoss.realized

\* the largest of the running equities after trades 1..k
PeakAfter(sorted, k) ==
  LET reached == {EquityAfter(sorted, j) : j \in 1..k}
  IN  CHOOSE m \in reached : \A e \in reached : e <= m

\* C24: for a non-empty sequence of closed trades, peakEquity is the maximum
\* of the running equities reached after each trade and maxDrawdown the
\* maximum over all prefixes of (peak so far - equity); a history of losing
\* trades only has peakEquity equal to the equity after its first trade
C24_PeakAndDrawdown ==
  (last.op = "drawdown" /\ ClosedByExit(trades) # <<>>) =>
    LET sorted == ClosedByExit(trades)
        n == Len(sorted)
        drawdowns == {PeakAfter(sorted, k) - EquityAfter(sorted, k) :
                        k \in 1..n}
    IN  /\ last.data.peakEquity = PeakAfter(sorted, n)
        /\ last.data.maxDrawdown =
             CHOOSE m \in drawdowns : \A d \in drawdowns : d <= m

\* pairs of exit days with no exit day between them
AdjacentExitDays(sorted) ==
  LET days == ExitDays(sorted)
  IN  {p \in days \X days :
         p[1] < p[2] /\ ~\E d \in days : p[1] < d /\ d < p[2]}

\* C23: in /analysis/streak and in /analysis/streaks an exit day whose
\* summed realized P/L is exactly 0 resets the win-streak counter: when no
\* two adjacent exit days both have a positive sum (winning days are
\* separated by a net-zero or losing day), no streak of length 2 is reported
C23_ZeroDayResetsStreak ==
  LET sorted == ClosedByExit(trades)
      separated == \A p \in AdjacentExitDays(sorted) :
                     DailyPL(sorted, p[1]) <= 0 \/ DailyPL(sorted, p[2]) <= 0
  IN  /\ (last.op = "streak" /\ separated) =>
           last.data.currentStreak <= 1 /\ last.data.maxStreak <= 1
      /\ (last.op = "streaks" /\ sorted # <<>> /\ separated) =>
           last.data.currentStreak <= 1 /\ last.data.longestStreak <= 1

----------------------------------------------------------------------------
(* Properties of the day-trade override (SpecOverride) *)

\* the save ran the day-trade check's branch: a valid DAY trade with an exit
\* date
DayChecked(save) ==
  /\ ValidTrade(save.doc)
  /\ save.doc.tradeType = "DAY"
  /\ save.doc.exitDate # None

----------------------------------------------------------------------------
(* Properties of concurrent updates (SpecRace) *)

\* the updates that have written
Written == {i \in DOMAIN inflight : inflight[i].pc = "done"}

\* C21: updates of one trade are not serialized.  Every update that passed
\* its read is written, whatever was stored since: it is never refused, and
\* the postExitAnalysis it stores is the one built from the payload and the
\* trade it read, also when another update wrote the trade in between
C21_UpdatesNotSerialized ==
  \A i \in Written :
    LET request == inflight[i]
    IN  /\ request.err = "none"
        /\ request.written # NoDoc
        /\ request.written[1].postExitAnalysis =
             updatedData(request.trade, request.body).postExitAnalysis

\* two updates of the same trade both read it before either wrote; the
\* first stored lowBeforeHigh = true, the second stored the null of its
\* stale read over it, and the trade has lost the value
C21_Witness ==
  \E i, j \in Written :
    /\ i # j
    /\ inflight[i].id = inflight[j].id
    /\ inflight[i].trade = inflight[j].trade
    /\ inflight[j].stored = Some(inflight[j].trade)
    /\ inflight[j].body.postExitAnalysis # None
    /\ inflight[j].written[1].postExitAnalysis.lowBeforeHigh = Some(TRUE)
    /\ inflight[i].stored = inflight[j].written
    /\ inflight[i].body.postExitAnalysis = None
    /\ trades[inflight[i].id] = inflight[i].written
    /\ trades[inflight[i].id][1].postExitAnalysis.lowBeforeHigh = None

----------------------------------------------------------------------------
(* Properties of the ownership of trades (SpecOwner) *)

\* the trades of the user, each with its id
TradesOf(store, user) ==
  {<<id, store[id][1]>> : id \in {k \in DOMAIN store : /\ store[k] # NoDoc
                                                        /\ store[k][1].user = user}}

\* C29: a request authenticated as one user, whatever its body, leaves the
\* set of trades owned by the other user and the fields of each of them
\* unchanged
C29_OwnershipIsolated ==
  [][last'.user = Requester =>
       TradesOf(trades', OtherUser) = TradesOf(trades, OtherUser)]_vars

====
